---- MODULE Spec2Model ----
(***************************************************************************)
(* Smart Planner: the task store (src/lib/storage.ts) and the notification *)
(* service (src/lib/notificationService.ts) as a state machine, with the   *)
(* time-string parsers as operators computed the way the code computes     *)
(* them.                                                                   *)
(*                                                                         *)
(* Conventions.                                                            *)
(*   - A JavaScript string is a sequence of one-character strings.         *)
(*   - A JavaScript number is <<"num", n>> or NaN; undefined and null are  *)
(*     the tuples Undefined and Null.                                      *)
(*   - A Date is <<"date", t>> (t in clock ticks, local time, fixed UTC    *)
(*     offset) or InvalidDate.                                             *)
(*   - One minute is ClockRes ticks; a day is 1440 * ClockRes ticks.  Tick *)
(*     0 of a minute is the instant h:mm:00.000 itself.                    *)
(*   - Spec runs every task-store operation to completion before the next  *)
(*     starts, over storage whose reads and writes succeed, with a fresh   *)
(*     identifier for every added task.                                    *)
(***************************************************************************)
EXTENDS Integers, Sequences, FiniteSets, TLC

VARIABLES
    tasksBlob,          \* AsyncStorage value under TASKS_KEY
    completedBlob,      \* AsyncStorage value under COMPLETED_TASKS_KEY
    scheduledTimeouts,  \* NotificationService.scheduledTimeouts: handle -> timer id
    timers,             \* pending setTimeout timers of the JavaScript runtime
    now,                \* the wall clock, in ticks
    permission,         \* Notification.permission
    platform,           \* Platform.OS
    hasApi,             \* 'Notification' in window
    nextId,             \* next unused task identifier
    inTime,             \* parser harness: the time string under test
    pstage,             \* parser harness: "idle", "input", "parsed", "scheduled"
    callAt,             \* parser harness: the instant of the call
    outDate,            \* parser harness: what parseTaskTime returned
    outHandle,          \* parser harness: what scheduleTaskNotification returned
    outHour,            \* parser harness: what parseTimeToHour returned
    flows,              \* the task-store calls in progress, one per UI flow
    faults,             \* AsyncStorage rejections still to come
    started,            \* task-store calls the UI flows have made
    message,            \* chat: the text the user sent
    currentHour,        \* chat: new Date().getHours() when the reply is built
    analysis,           \* chat: what analyzeMessage returned
    response,           \* chat: what generateResponse returned
    picked,             \* add-task form: the Date the time picker holds
    context,            \* suggestions: the UserContext the engine is given
    apiKey,             \* suggestions: the apiKey argument
    completion,         \* suggestions: what the completion service does
    suggested,          \* suggestions: what the engine returned
    transcript,         \* chat screen: the messages state, oldest first
    typing,             \* chat screen: pending typing-delay timers
    chatClock           \* chat screen: the clock, in units of 100 ms

vars == <<tasksBlob, completedBlob, scheduledTimeouts, timers, now,
          permission, platform, hasApi, nextId,
          inTime, pstage, callAt, outDate, outHandle, outHour, flows, faults,
          started, message, currentHour, analysis, response,
          picked, context, apiKey, completion, suggested, transcript, typing,
          chatClock>>

storeVars == <<tasksBlob, completedBlob, nextId>>
chatVars == <<message, currentHour, analysis, response>>
screenVars ==
    <<picked, context, apiKey, completion, suggested, transcript, typing, chatClock>>
harnessVars ==
    <<inTime, pstage, callAt, outDate, outHandle, outHour, flows, faults, started,
      chatVars, screenVars>>

----------------------------------------------------------------------------
(* Bounds of the model *)

\* ticks per minute
ClockRes == 2
\* how many ticks may pass between the first and the last clock read of one call
MaxDrift == 1
\* how many tasks are ever added
MaxTasks == 2
\* the clock never passes the end of this many days
MaxDays == 2

\* single ticks of the clock are followed for this many ticks after the start
MaxTicks == 1
\* UI flows whose task-store calls can overlap
MaxFlows == 2
\* storage writes that can fail in one run
MaxFaults == 1
\* task-store calls the UI flows make in one run
MaxCalls == 3

DayTicks == 1440 * ClockRes

\* tick `sub` of minute h:m of day 0
At(h, m, sub) == (h * 60 + m) * ClockRes + sub

\* the clock starts inside the minute 9:29
StartClock == At(9, 29, 1)
Horizon == StartClock + MaxTicks

----------------------------------------------------------------------------
(* JavaScript values *)

Undefined == <<"undefined">>
Null == <<"null">>
NaN == <<"nan">>
Num(n) == <<"num", n>>
IsNum(x) == Len(x) = 2 /\ x[1] = "num"
InvalidDate == <<"invalid">>
DateOf(t) == <<"date", t>>
IsDate(d) == Len(d) = 2 /\ d[1] = "date"

DigitChars == <<"0", "1", "2", "3", "4", "5", "6", "7", "8", "9">>
IsDigit(c) == \E i \in 1..10 : DigitChars[i] = c
DigitVal(c) == (CHOOSE i \in 1..10 : DigitChars[i] = c) - 1

\* String.prototype.split with a one-character separator
RECURSIVE Split(_, _)
Split(s, sep) ==
    IF \A i \in 1..Len(s) : s[i] # sep
    THEN <<s>>
    ELSE LET k == CHOOSE i \in 1..Len(s) :
                      s[i] = sep /\ \A j \in 1..(i - 1) : s[j] # sep
         IN  <<SubSeq(s, 1, k - 1)>> \o Split(SubSeq(s, k + 1, Len(s)), sep)

\* array destructuring: a missing element is undefined
Nth(arr, i) == IF i <= Len(arr) THEN arr[i] ELSE Undefined

RECURSIVE DecimalValue(_)
DecimalValue(s) ==
    IF s = <<>> THEN 0
    ELSE 10 * DecimalValue(SubSeq(s, 1, Len(s) - 1)) + DigitVal(s[Len(s)])

\* Number(token) for tokens over digits and letters: "" is 0, digits are their
\* decimal value, anything else is NaN
Number(tok) ==
    IF \A i \in 1..Len(tok) : IsDigit(tok[i])
    THEN Num(DecimalValue(tok))
    ELSE NaN

\* x + n in JavaScript arithmetic
Plus(x, n) == IF IsNum(x) THEN Num(x[2] + n) ELSE NaN

----------------------------------------------------------------------------
(* Dates *)

DayStart(t) == t - (t % DayTicks)

\* date.setHours(h, m, 0, 0) on a Date holding instant t
SetHours(t, h, m) ==
    IF IsNum(h) /\ IsNum(m)
    THEN DateOf(DayStart(t) + (h[2] * 60 + m[2]) * ClockRes)
    ELSE InvalidDate

\* DateLE with < for <=
DateLT(a, b) == IsDate(a) /\ IsDate(b) /\ a[2] < b[2]

\* a <= b on Date objects: false when either is an Invalid Date
DateLE(a, b) == IsDate(a) /\ IsDate(b) /\ a[2] <= b[2]

\* date.setDate(date.getDate() + 1)
AddDay(d) == IF IsDate(d) THEN DateOf(d[2] + DayTicks) ELSE InvalidDate

GetHours(d) == (d[2] % DayTicks) \div (60 * ClockRes)
GetMinutes(d) == ((d[2] % DayTicks) \div ClockRes) % 60

AM == <<"A", "M">>
PM == <<"P", "M">>

\* Hour24 without the 12 AM branch
Hour24NoMidnight(hours, period) ==
    IF period = PM /\ hours # Num(12) THEN Plus(hours, 12) ELSE hours

\* lines 162-167 of parseTaskTime: the 12-hour to 24-hour conversion
Hour24(hours, period) ==
    IF period = PM /\ hours # Num(12) THEN Plus(hours, 12)
    ELSE IF period = AM /\ hours = Num(12) THEN Num(0)
    ELSE hours

\* the one element of a one-element set; { e(x) : x \in {v} } computes v once
Only(S) == CHOOSE x \in S : TRUE

\* lines 159-160 of parseTaskTime: the two splits and the map(Number)
TimeFields(timeString) ==
    Only({ Only({ [hours |-> Number(fields[1]),
                   minutes |-> IF Len(fields) >= 2 THEN Number(fields[2])
                               ELSE Undefined,
                   period |-> Nth(parts, 2)]
                  : fields \in {Split(parts[1], ":")} })
           : parts \in {Split(timeString, " ")} })

\* lines 169-178 of parseTaskTime: today at hour24:minutes:00.000, moved to
\* tomorrow when that is not after now
TaskDate(hour24, minutes, readNow, readBase) ==
    Only({ IF DateLE(taskDate, DateOf(readNow)) THEN AddDay(taskDate) ELSE taskDate
           : taskDate \in {SetHours(readBase, hour24, minutes)} })

\* NotificationService.parseTaskTime; readNow and readBase are the clock values
\* the two `new Date()` calls see
ParseTaskTime(timeString, readNow, readBase) ==
    IF timeString = Undefined
    THEN Null   \* timeString.split throws, the catch returns null
    ELSE Only({ TaskDate(Hour24(f.hours, f.period), f.minutes, readNow, readBase)
                : f \in {TimeFields(timeString)} })

\* AITaskSuggestionService.parseTimeToHour
ParseTimeToHour(timeString) ==
    Only({ IF f.period = PM /\ f.hours # Num(12) THEN Plus(f.hours, 12)
           ELSE IF f.period = AM /\ f.hours = Num(12) THEN Num(0)
           ELSE f.hours
           : f \in {TimeFields(timeString)} })

----------------------------------------------------------------------------
(* NotificationService *)

NoTimeouts == [k \in {} |-> 0]

Handle(kind, id, stamp) == <<kind, id, stamp>>
StartsWith(h, kind) == Len(h) = 3 /\ h[1] = kind

\* a value is truthy unless it is undefined or null (the handles and blobs of
\* this program are never the empty string)
Truthy(x) == x # Undefined /\ x # Null

\* the clock values one call reads, in order, when it starts at t and takes at
\* most d ticks: each read is at or after the one before
ReadsFrom(t, d) ==
    { r \in [1..5 -> t..(t + d)] : \A i \in 1..4 : r[i] <= r[i + 1] }

\* a call takes at most MaxDrift ticks (none once the clock has passed the
\* horizon up to which single ticks are followed)
ClockReads(t) == ReadsFrom(t, IF t + MaxDrift <= Horizon THEN MaxDrift ELSE 0)

\* Notification.requestPermission(): what the user answers to the prompt
PromptAnswers == {"granted", "denied", "default"}

\* the answers a call can get: the prompt is shown only on the web, with the
\* Notification API present and the permission still undecided
Answers ==
    IF platform = "web" /\ hasApi /\ permission = "default"
    THEN PromptAnswers ELSE {permission}

\* RequestPermissions that reports the permission as granted whatever it is
RequestPermissionsAlways(answer) == [granted |-> TRUE, permission |-> permission]

\* NotificationService.requestPermissions: the boolean returned and the
\* permission afterwards
RequestPermissions(answer) ==
    IF platform = "web"
    THEN IF hasApi /\ permission = "granted"
         THEN [granted |-> TRUE, permission |-> permission]
         ELSE IF hasApi /\ permission # "denied"
         THEN [granted |-> answer = "granted", permission |-> answer]
         ELSE [granted |-> FALSE, permission |-> permission]
    ELSE [granted |-> TRUE, permission |-> permission]

\* setTimeout: a timer id no pending timer uses
NewTimerId(timerSet) ==
    CHOOSE n \in 1..(Cardinality(timerSet) + 1) : \A tm \in timerSet : tm.tid # n

\* clearTimeout
ClearTimeout(timerSet, tid) == { tm \in timerSet : tm.tid # tid }

\* Map.prototype.set and Map.prototype.delete on scheduledTimeouts
MapSet(m, k, v) == [x \in DOMAIN m \cup {k} |-> IF x = k THEN v ELSE m[x]]
MapDelete(m, k) == [x \in DOMAIN m \ {k} |-> m[x]]

\* what a scheduling call that registers nothing leaves behind
NotScheduled(timeoutMap, timerSet) ==
    [handle |-> Null, timeouts |-> timeoutMap, timers |-> timerSet, at |-> Null]

\* NotificationService.scheduleWebNotification; readUntil and readId are the
\* clock values of its two Date.now() calls.  `at` is the instant the reminder
\* is meant for; the timer runs at readId + (notificationTime - readUntil).
ScheduleWebNotification(task, notificationTime, readUntil, readId, timeoutMap, timerSet) ==
    IF IsDate(notificationTime) /\ notificationTime[2] - readUntil <= 0
    THEN NotScheduled(timeoutMap, timerSet)
    ELSE Only({ [handle |-> tm.key,
                 timeouts |-> MapSet(timeoutMap, tm.key, tm.tid),
                 timers |-> timerSet \cup {tm},
                 at |-> notificationTime]
                : tm \in {[tid |-> NewTimerId(timerSet),
                           \* a NaN delay (Invalid Date) is a delay of 0
                           due |-> IF IsDate(notificationTime)
                                   THEN readId + (notificationTime[2] - readUntil)
                                   ELSE readId,
                           key |-> Handle("web", task.id, readId),
                           task |-> task.id]} })

\* lines 49-61 of scheduleTaskNotification, permission granted
ScheduleAt(task, notificationTime, reads, timeoutMap, timerSet) ==
    IF notificationTime = Null \/ DateLE(notificationTime, DateOf(reads[3]))
    THEN NotScheduled(timeoutMap, timerSet)
    ELSE IF platform = "web"
    THEN ScheduleWebNotification(task, notificationTime, reads[4], reads[5],
                                 timeoutMap, timerSet)
    ELSE [handle |-> Handle("mobile", task.id, reads[5]),
          timeouts |-> timeoutMap, timers |-> timerSet, at |-> notificationTime]

\* NotificationService.scheduleTaskNotification: the handle returned (or null),
\* the timers and the tracking map afterwards, the permission afterwards
ScheduleTaskNotification(task, reads, answer, timeoutMap, timerSet) ==
    Only({ [permission |-> perm.permission] @@
           (IF perm.granted
            THEN ScheduleAt(task, notificationTime, reads, timeoutMap, timerSet)
            ELSE NotScheduled(timeoutMap, timerSet))
           : perm \in {RequestPermissions(answer)},
             notificationTime \in {ParseTaskTime(task.time, reads[1], reads[2])} })

\* CancelNotification that forgets the handle without clearing its timer
CancelNotificationKeepsTimer(notificationId, timeoutMap, timerSet) ==
    IF StartsWith(notificationId, "web") /\ notificationId \in DOMAIN timeoutMap
    THEN [timeouts |-> MapDelete(timeoutMap, notificationId), timers |-> timerSet]
    ELSE [timeouts |-> timeoutMap, timers |-> timerSet]

\* CancelNotification that clears the whole tracking map, not the one handle
CancelNotificationClearsAll(notificationId, timeoutMap, timerSet) ==
    IF StartsWith(notificationId, "web") /\ notificationId \in DOMAIN timeoutMap
    THEN [timeouts |-> [k \in {} |-> 0],
          timers |-> { tm \in timerSet :
                         \A k \in DOMAIN timeoutMap : timeoutMap[k] # tm.tid }]
    ELSE [timeouts |-> timeoutMap, timers |-> timerSet]

\* NotificationService.cancelNotification
CancelNotification(notificationId, timeoutMap, timerSet) ==
    IF StartsWith(notificationId, "web") /\ notificationId \in DOMAIN timeoutMap
    THEN [timeouts |-> MapDelete(timeoutMap, notificationId),
          timers |-> ClearTimeout(timerSet, timeoutMap[notificationId])]
    ELSE [timeouts |-> timeoutMap, timers |-> timerSet]

\* CancelAllResult that clears the tracking map and leaves the timers running
CancelAllForgetsTimers(timeoutMap, timerSet) ==
    [timeouts |-> [k \in {} |-> 0], timers |-> timerSet]

\* NotificationService.cancelAllTaskNotifications
CancelAllResult(timeoutMap, timerSet) ==
    [timeouts |-> NoTimeouts,
     timers |-> { tm \in timerSet :
                    \A k \in DOMAIN timeoutMap : timeoutMap[k] # tm.tid }]

\* NotificationService.getScheduledNotifications: one entry per tracked handle
GetScheduledNotifications == { [identifier |-> k] : k \in DOMAIN scheduledTimeouts }

----------------------------------------------------------------------------
(* TaskStorage *)

\* Date.prototype.toJSON inside JSON.stringify, and new Date(isoString)
\* Iso that keeps the instant to the whole minute only
IsoWholeMinutes(d) ==
    IF IsDate(d) THEN <<"iso", d[2] - (d[2] % ClockRes)>> ELSE Null

\* toJSON of an Invalid Date is null, and new Date(null) is the epoch
Iso(d) == IF IsDate(d) THEN <<"iso", d[2]>> ELSE Null
FromIso(x) == IF x = Null THEN DateOf(0) ELSE DateOf(x[2])

\* JSON.stringify of one task: dates become ISO strings, a property whose value
\* is undefined is left out (read back as undefined)
StringifyTask(task) ==
    [id |-> task.id, title |-> task.title, time |-> task.time,
     completed |-> task.completed,
     createdAt |-> Iso(task.createdAt),
     completedAt |-> IF task.completedAt = Undefined THEN Undefined
                     ELSE Iso(task.completedAt),
     notificationId |-> task.notificationId]

\* the map() of getTasks / getCompletedTasks over one parsed task
ReviveTask(json) ==
    [id |-> json.id, title |-> json.title, time |-> json.time,
     completed |-> json.completed,
     createdAt |-> FromIso(json.createdAt),
     completedAt |-> IF Truthy(json.completedAt) THEN FromIso(json.completedAt)
                     ELSE Undefined,
     notificationId |-> json.notificationId]

\* JSON.stringify(tasks) and JSON.parse(tasksJson)
Stringify(tasks) == <<"json", [i \in 1..Len(tasks) |-> StringifyTask(tasks[i])]>>
ParseJson(blob) == blob[2]

\* getTasks / getCompletedTasks on what AsyncStorage.getItem returned
LoadTasks(blob) ==
    IF Truthy(blob)
    THEN Only({ [i \in 1..Len(parsed) |-> ReviveTask(parsed[i])]
                : parsed \in {ParseJson(blob)} })
    ELSE << >>

GetTasks == LoadTasks(tasksBlob)
GetCompletedTasks == LoadTasks(completedBlob)

\* tasks.findIndex(task => task.id === taskId), 0 for -1
FindIndex(tasks, taskId) ==
    IF \E i \in 1..Len(tasks) : tasks[i].id = taskId
    THEN CHOOSE i \in 1..Len(tasks) :
             tasks[i].id = taskId /\ \A j \in 1..(i - 1) : tasks[j].id # taskId
    ELSE 0

\* Splice that removes nothing
SpliceNothing(tasks, index) == tasks

\* tasks.splice(index, 1)
Splice(tasks, index) ==
    SubSeq(tasks, 1, index - 1) \o SubSeq(tasks, index + 1, Len(tasks))

\* FilterOut that keeps nothing
FilterOutAll(tasks, taskId) == << >>

\* tasks.filter(task => task.id !== taskId)
RECURSIVE FilterOut(_, _)
FilterOut(tasks, taskId) ==
    IF tasks = << >> THEN << >>
    ELSE IF Head(tasks).id = taskId THEN FilterOut(Tail(tasks), taskId)
    ELSE <<Head(tasks)>> \o FilterOut(Tail(tasks), taskId)

\* { ...currentTask, ...updates }: a property absent from updates keeps its value
Spread(currentTask, updates) ==
    [f \in DOMAIN currentTask |->
        IF f \in DOMAIN updates /\ updates[f] # Undefined
        THEN updates[f] ELSE currentTask[f]]

Title1 == <<"a">>

\* the Task object the screens build (handleAddTask, addTaskToPlanner)
NewTask(id, time, createdAt) ==
    [id |-> id, title |-> Title1, time |-> time, completed |-> FALSE,
     createdAt |-> DateOf(createdAt), completedAt |-> Undefined,
     notificationId |-> Undefined]

\* what a handler that touches neither the store nor the service leaves behind
Untouched ==
    [tasksBlob |-> tasksBlob, completedBlob |-> completedBlob,
     timeouts |-> scheduledTimeouts, timers |-> timers,
     permission |-> permission, handle |-> Null, rescheduled |-> FALSE]

\* CancelIfSet that cancels nothing
CancelNothing(task) == [timeouts |-> scheduledTimeouts, timers |-> timers]

\* the service when the task's handle, if it has one, is cancelled
CancelIfSet(task) ==
    IF Truthy(task.notificationId)
    THEN CancelNotification(task.notificationId, scheduledTimeouts, timers)
    ELSE [timeouts |-> scheduledTimeouts, timers |-> timers]

\* TaskStorage.addTask: what is persisted and what the service holds afterwards
AddTaskResult(task, reads, answer) ==
    Only({ [Untouched EXCEPT
               !.tasksBlob = Stringify(Append(GetTasks,
                                 IF Truthy(sched.handle)
                                 THEN [task EXCEPT !.notificationId = sched.handle]
                                 ELSE task)),
               !.timeouts = sched.timeouts,
               !.timers = sched.timers,
               !.permission = sched.permission,
               !.handle = sched.handle]
           : sched \in {ScheduleTaskNotification(task, reads, answer,
                                                 scheduledTimeouts, timers)} })

\* CompleteAt that saves the completed task as the whole completed collection
CompleteAtReplacing(tasks, taskIndex, completedAt) ==
    [Untouched EXCEPT
        !.tasksBlob = Stringify(Splice(tasks, taskIndex)),
        !.completedBlob = Stringify(<<[tasks[taskIndex] EXCEPT
                                          !.completed = TRUE,
                                          !.completedAt = DateOf(completedAt)]>>),
        !.timeouts = CancelIfSet(tasks[taskIndex]).timeouts,
        !.timers = CancelIfSet(tasks[taskIndex]).timers]

\* lines 80-94 of completeTask: the task at taskIndex is completed
CompleteAt(tasks, taskIndex, completedAt) ==
    Only({ Only({ [Untouched EXCEPT
                      !.tasksBlob = Stringify(Splice(tasks, taskIndex)),
                      !.completedBlob = Stringify(Append(GetCompletedTasks, task)),
                      !.timeouts = svc.timeouts,
                      !.timers = svc.timers]
                  : svc \in {CancelIfSet(task)} })
           : task \in {[tasks[taskIndex] EXCEPT
                           !.completed = TRUE,
                           !.completedAt = DateOf(completedAt)]} })

\* TaskStorage.completeTask; completedAt is the clock value `new Date()` sees
CompleteTaskResult(taskId, completedAt) ==
    Only({ Only({ IF taskIndex # 0
                  THEN CompleteAt(tasks, taskIndex, completedAt)
                  ELSE Untouched
                  : taskIndex \in {FindIndex(tasks, taskId)} })
           : tasks \in {GetTasks} })

\* TaskStorage.deleteTask
DeleteTaskResult(taskId) ==
    Only({ Only({ Only({ [Untouched EXCEPT
                             !.tasksBlob = Stringify(FilterOut(tasks, taskId)),
                             !.timeouts = svc.timeouts,
                             !.timers = svc.timers]
                         : svc \in {IF index # 0 THEN CancelIfSet(tasks[index])
                                    ELSE [timeouts |-> scheduledTimeouts,
                                          timers |-> timers]} })
                  : index \in {FindIndex(tasks, taskId)} })
           : tasks \in {GetTasks} })

\* lines 119-129 of updateTask: the old handle is cancelled and a reminder for
\* the new time is requested
Reschedule(currentTask, updates, reads, answer) ==
    Only({ ScheduleTaskNotification(Spread(currentTask, updates), reads, answer,
                                    svc.timeouts, svc.timers)
           : svc \in {CancelIfSet(currentTask)} })

\* lines 115-133 of updateTask: the task at taskIndex is updated
UpdateAt(tasks, taskIndex, updates, reads, answer) ==
    Only({ IF Truthy(updates.time) /\ updates.time # currentTask.time
           THEN Only({ [Untouched EXCEPT
                           !.tasksBlob = Stringify([tasks EXCEPT ![taskIndex] =
                               Spread(currentTask,
                                      IF Truthy(sched.handle)
                                      THEN [updates EXCEPT
                                               !.notificationId = sched.handle]
                                      ELSE updates)]),
                           !.timeouts = sched.timeouts,
                           !.timers = sched.timers,
                           !.permission = sched.permission,
                           !.handle = sched.handle,
                           !.rescheduled = TRUE]
                       : sched \in {Reschedule(currentTask, updates, reads, answer)} })
           ELSE [Untouched EXCEPT
                    !.tasksBlob = Stringify([tasks EXCEPT ![taskIndex] =
                                                Spread(currentTask, updates)])]
           : currentTask \in {tasks[taskIndex]} })

\* TaskStorage.updateTask
UpdateTaskResult(taskId, updates, reads, answer) ==
    Only({ Only({ IF taskIndex # 0
                  THEN UpdateAt(tasks, taskIndex, updates, reads, answer)
                  ELSE Untouched
                  : taskIndex \in {FindIndex(tasks, taskId)} })
           : tasks \in {GetTasks} })

----------------------------------------------------------------------------
(* The task store and the notification service as a state machine *)

\* the time strings tasks are given: one a tick ahead of the starting clock and
\* one already passed today
Time930 == <<"9", ":", "3", "0", " ", "A", "M">>
Time929 == <<"9", ":", "2", "9", " ", "A", "M">>
TaskTimes == {Time930, Time929}

TaskIds == 1..MaxTasks

\* Partial<Task> objects passed to updateTask
UpdateSets ==
    { [time |-> tm, notificationId |-> Undefined] : tm \in TaskTimes \cup {Undefined} }

\* updateTask reads the clock and asks for permission only when it reschedules
Reschedules(taskId, updates) ==
    /\ Truthy(updates.time)
    /\ \E i \in 1..Len(GetTasks) :
          GetTasks[i].id = taskId /\ GetTasks[i].time # updates.time
UpdateReads(taskId, updates) ==
    IF Reschedules(taskId, updates) THEN ClockReads(now) ELSE {[i \in 1..5 |-> now]}
UpdateAnswers(taskId, updates) ==
    IF Reschedules(taskId, updates) THEN Answers ELSE {permission}

IdsOf(tasks) == { tasks[i].id : i \in 1..Len(tasks) }
ActiveIds == IdsOf(GetTasks)
CompletedIds == IdsOf(GetCompletedTasks)

\* a UI flow with no task-store call in progress
FlowIds == 1..MaxFlows
IdleFlow ==
    [op |-> "none", pc |-> "idle", task |-> Null, taskId |-> 0,
     tasks |-> << >>, completedTasks |-> << >>, handle |-> Null,
     failed |-> FALSE, raised |-> FALSE, solo |-> TRUE, before |-> << >>]
NoFlows == [f \in FlowIds |-> IdleFlow]

\* a JavaScript object held where undefined can be held too
Obj(fields) == <<"object", fields>>

\* no chat message under way: nothing analysed, nothing replied
NoAnalysis ==
    [intent |-> "none", entities |-> [activities |-> Undefined, timeframes |-> Undefined],
     sentiment |-> "neutral", confidence |-> 0]
NoResponse ==
    [text |-> <<"none", 0>>, suggestedTask |-> Undefined, suggestions |-> Undefined]
IdleChat ==
    /\ message = << >>
    /\ currentHour = 0
    /\ analysis = NoAnalysis
    /\ response = NoResponse

\* the add-task form, the suggestion engine and the chat screen at rest
NoContext ==
    [currentTime |-> << >>, dayOfWeek |-> "Monday", existingTasks |-> 0,
     completedTasksToday |-> 0]
NoSuggestions ==
    [suggestions |-> << >>, usingFallback |-> FALSE, error |-> Undefined,
     raised |-> FALSE, simplified |-> << >>]
NoOutcome == [kind |-> "none", status |-> 0, content |-> Undefined]
IdleScreens ==
    /\ picked = Null
    /\ context = NoContext
    /\ apiKey = Undefined
    /\ completion = NoOutcome
    /\ suggested = NoSuggestions
    /\ transcript = << >>
    /\ typing = {}
    /\ chatClock = 0

IdleHarness ==
    /\ IdleChat
    /\ IdleScreens
    /\ flows = NoFlows
    /\ faults = 0
    /\ started = 0
    /\ inTime = << >>
    /\ pstage = "idle"
    /\ callAt = 0
    /\ outDate = Null
    /\ outHandle = Null
    /\ outHour = NaN

Init ==
    /\ tasksBlob = Null
    /\ completedBlob = Null
    /\ scheduledTimeouts = NoTimeouts
    /\ timers = {}
    /\ now = StartClock
    /\ permission = "default"
    /\ \/ platform = "web" /\ hasApi \in BOOLEAN
       \/ platform = "ios" /\ hasApi = FALSE
    /\ nextId = 1
    /\ IdleHarness

\* a handler's result becomes the next state of the store and the service
Commit(r) ==
    /\ tasksBlob' = r.tasksBlob
    /\ completedBlob' = r.completedBlob
    /\ scheduledTimeouts' = r.timeouts
    /\ timers' = r.timers
    /\ permission' = r.permission

\* handleAddTask / addTaskToPlanner followed by TaskStorage.addTask
AddTask(time, reads, answer) ==
    /\ pstage = "idle"
    /\ nextId <= MaxTasks
    /\ reads \in ClockReads(now)
    /\ \E r \in {AddTaskResult(NewTask(nextId, time, now), reads, answer)} : Commit(r)
    /\ nextId' = nextId + 1
    /\ now' = reads[5]
    /\ UNCHANGED <<platform, hasApi, harnessVars>>

\* TaskStorage.completeTask
CompleteTask(taskId) ==
    /\ pstage = "idle"
    /\ \E r \in {CompleteTaskResult(taskId, now)} : Commit(r)
    /\ UNCHANGED <<now, platform, hasApi, nextId, harnessVars>>

\* TaskStorage.deleteTask
DeleteTask(taskId) ==
    /\ pstage = "idle"
    /\ \E r \in {DeleteTaskResult(taskId)} : Commit(r)
    /\ UNCHANGED <<now, platform, hasApi, nextId, harnessVars>>

\* TaskStorage.updateTask
UpdateTask(taskId, updates, reads, answer) ==
    /\ pstage = "idle"
    /\ reads \in ClockReads(now)
    /\ \E r \in {UpdateTaskResult(taskId, updates, reads, answer)} :
          /\ Commit(r)
          /\ now' = IF r.rescheduled THEN reads[5] ELSE now
    /\ UNCHANGED <<platform, hasApi, nextId, harnessVars>>

\* toggleNotifications(false): NotificationService.cancelAllTaskNotifications
CancelAllTaskNotifications ==
    /\ pstage = "idle"
    /\ \E r \in {CancelAllResult(scheduledTimeouts, timers)} :
          /\ scheduledTimeouts' = r.timeouts
          /\ timers' = r.timers
    /\ UNCHANGED <<storeVars, now, permission, platform, hasApi, harnessVars>>

\* the setTimeout callback of scheduleWebNotification runs: the reminder is
\* shown (a Notification, or an alert) and the handle is dropped from the
\* tracking map
FireTimer(tm) ==
    /\ pstage = "idle"
    /\ tm \in timers
    /\ tm.due <= now
    /\ timers' = timers \ {tm}
    /\ scheduledTimeouts' = MapDelete(scheduledTimeouts, tm.key)
    /\ UNCHANGED <<storeVars, now, permission, platform, hasApi, harnessVars>>

\* time passes: to the next tick or to the instant a pending timer is due
AdvanceClock(t) ==
    /\ pstage = "idle"
    /\ t > now
    /\ t < MaxDays * DayTicks
    /\ \/ t = now + 1 /\ t <= Horizon
       \/ \E tm \in timers : tm.due = t
    /\ now' = t
    /\ UNCHANGED <<storeVars, scheduledTimeouts, timers, permission,
                   platform, hasApi, harnessVars>>

\* the user changes the site's notification permission in the browser
SetPermission(p) ==
    /\ pstage = "idle"
    /\ platform = "web"
    /\ hasApi
    /\ p # permission
    /\ permission' = p
    /\ UNCHANGED <<storeVars, scheduledTimeouts, timers, now,
                   platform, hasApi, harnessVars>>

Next ==
    \/ \E time \in TaskTimes, reads \in ClockReads(now), answer \in Answers :
           AddTask(time, reads, answer)
    \/ \E taskId \in TaskIds : CompleteTask(taskId)
    \/ \E taskId \in TaskIds : DeleteTask(taskId)
    \/ \E taskId \in TaskIds, updates \in UpdateSets :
           \E reads \in UpdateReads(taskId, updates),
              answer \in UpdateAnswers(taskId, updates) :
               UpdateTask(taskId, updates, reads, answer)
    \/ CancelAllTaskNotifications
    \/ \E tm \in timers : FireTimer(tm)
    \/ \E t \in {now + 1} \cup { tm.due : tm \in timers } : AdvanceClock(t)
    \/ \E p \in PromptAnswers : SetPermission(p)

Spec == Init /\ [][Next]_vars

----------------------------------------------------------------------------
(* The parsers and the scheduler on one time string at one instant *)

HourText(h) ==
    IF h < 10 THEN <<DigitChars[h + 1]>>
    ELSE <<DigitChars[(h \div 10) + 1], DigitChars[(h % 10) + 1]>>
MinuteText(m) == <<DigitChars[(m \div 10) + 1], DigitChars[(m % 10) + 1]>>

\* the string H:MM AM|PM
TimeString(h, m, period) == HourText(h) \o <<":">> \o MinuteText(m) \o <<" ">> \o period

WellFormedInputs ==
    { TimeString(h, m, period) : h \in 1..12, m \in 0..59, period \in {AM, PM} }

\* strings that are malformed in at least one of the ways the time parser is to
\* reject: non-numeric hour or minute, hour outside 1..12, minute outside
\* 0..59, no AM/PM token
GoodHourTexts == {<<"9">>, <<"1", "2">>}
BadHourTexts == {<<"x">>, << >>, <<"0">>, <<"1", "3">>}
GoodMinuteTexts == {<<"3", "0">>, <<"0", "0">>}
BadMinuteTexts == {<<"x", "x">>, <<"6", "0">>, <<"7", "5">>}
PeriodSuffixes == {<<" ">> \o AM, <<" ">> \o PM}
MalformedInputs ==
    { ht \o <<":">> \o mt \o suffix :
        ht \in GoodHourTexts \cup BadHourTexts,
        mt \in GoodMinuteTexts \cup BadMinuteTexts,
        suffix \in PeriodSuffixes \cup {<< >>} }
    \ { ht \o <<":">> \o mt \o suffix :
        ht \in GoodHourTexts, mt \in GoodMinuteTexts, suffix \in PeriodSuffixes }

\* the instants the calls are made at: midnight, inside 9:29, exactly 9:30,
\* noon, the last tick of the day
ClockSamples ==
    {At(0, 0, 0), At(9, 29, 1), At(9, 30, 0), At(12, 0, 0), At(23, 59, ClockRes - 1)}

InitParse ==
    /\ tasksBlob = Null
    /\ completedBlob = Null
    /\ scheduledTimeouts = NoTimeouts
    /\ timers = {}
    /\ now \in ClockSamples
    /\ permission = "granted"
    /\ \/ platform = "web" /\ hasApi = TRUE
       \/ platform = "ios" /\ hasApi = FALSE
    /\ nextId = 1
    /\ inTime \in WellFormedInputs \cup MalformedInputs \cup {Undefined}
    /\ pstage = "input"
    /\ callAt = now
    /\ outDate = Null
    /\ outHandle = Null
    /\ outHour = NaN
    /\ flows = NoFlows
    /\ faults = 0
    /\ started = 0
    /\ IdleChat
    /\ IdleScreens

\* parseTaskTime(inTime) and parseTimeToHour(inTime) are called
ParseCall(reads) ==
    /\ pstage = "input"
    /\ reads \in ReadsFrom(now, MaxDrift)
    /\ outDate' = ParseTaskTime(inTime, reads[1], reads[2])
    /\ outHour' = IF inTime = Undefined THEN NaN ELSE ParseTimeToHour(inTime)
    /\ pstage' = "parsed"
    /\ now' = reads[2]
    /\ UNCHANGED <<storeVars, scheduledTimeouts, timers, permission, platform,
                   hasApi, inTime, callAt, outHandle, flows, faults, started,
                   chatVars, screenVars>>

\* scheduleTaskNotification is called for a task with time inTime
ScheduleCall(reads) ==
    /\ pstage = "input"
    /\ reads \in ReadsFrom(now, MaxDrift)
    /\ \E r \in {ScheduleTaskNotification(NewTask(nextId, inTime, now), reads,
                                          permission, scheduledTimeouts, timers)} :
          /\ outHandle' = r.handle
          /\ outDate' = r.at
          /\ scheduledTimeouts' = r.timeouts
          /\ timers' = r.timers
          /\ permission' = r.permission
    /\ pstage' = "scheduled"
    /\ now' = reads[5]
    /\ UNCHANGED <<storeVars, platform, hasApi, inTime, callAt, outHour,
                   flows, faults, started, chatVars, screenVars>>

NextParse ==
    \/ \E reads \in ReadsFrom(now, MaxDrift) : ParseCall(reads)
    \/ \E reads \in ReadsFrom(now, MaxDrift) : ScheduleCall(reads)

SpecParse == InitParse /\ [][NextParse]_vars

----------------------------------------------------------------------------
(* Properties of the time parser and the scheduler, under SpecParse *)

\* a string is H:MM AM|PM, read off its characters
IsWellFormed(str) ==
    /\ Len(str) \in {7, 8}
    /\ \E h \in 1..12 : HourText(h) = SubSeq(str, 1, Len(str) - 6)
    /\ str[Len(str) - 5] = ":"
    /\ \E m \in 0..59 : MinuteText(m) = SubSeq(str, Len(str) - 4, Len(str) - 3)
    /\ str[Len(str) - 2] = " "
    /\ SubSeq(str, Len(str) - 1, Len(str)) \in {AM, PM}

WrittenHour(str) == CHOOSE h \in 1..12 : HourText(h) = SubSeq(str, 1, Len(str) - 6)
WrittenMinute(str) ==
    CHOOSE m \in 0..59 : MinuteText(m) = SubSeq(str, Len(str) - 4, Len(str) - 3)
WrittenPeriod(str) == SubSeq(str, Len(str) - 1, Len(str))

\* the hour of day H:MM AM|PM stands for
MeantHour(str) ==
    IF WrittenPeriod(str) = AM THEN WrittenHour(str) % 12
    ELSE (WrittenHour(str) % 12) + 12

\* C5: for a well-formed time string, whenever scheduleTaskNotification returns
\* a handle, the instant the reminder is registered for is strictly after the
\* instant of the call and at most a day (and the duration of the call) after
\* it; on the web the timer, too, is due after the instant of the call.
C5_HandleOnlyForFuture ==
    (pstage = "scheduled" /\ IsWellFormed(inTime) /\ outHandle # Null) =>
        /\ IsDate(outDate)
        /\ outDate[2] > callAt
        /\ outDate[2] - callAt <= DayTicks + MaxDrift
        /\ \A tm \in timers : tm.due > callAt /\ tm.due >= outDate[2]

\* C5 witness: a handle was returned for a time of day that had already passed
\* at the call, and the reminder is registered for the next calendar day
C5_Witness ==
    /\ pstage = "scheduled"
    /\ IsWellFormed(inTime)
    /\ outHandle # Null
    /\ IsDate(outDate)
    /\ At(MeantHour(inTime), WrittenMinute(inTime), 0) < callAt % DayTicks
    /\ DayStart(outDate[2]) = DayStart(callAt) + DayTicks

\* C9 (as claimed): for every malformed time string the parser returns null,
\* and scheduleTaskNotification returns no handle and registers no reminder.
C9_MalformedRejected ==
    (inTime \in MalformedInputs) =>
        /\ pstage = "parsed" => outDate = Null
        /\ pstage = "scheduled" => (outHandle = Null /\ timers = {})

\* C10: for every well-formed H:MM AM|PM the parsed time of day has minute MM
\* and hour H mod 12 (AM) or H mod 12 + 12 (PM), in parseTaskTime and in
\* parseTimeToHour; 11:30 PM is 23:30, 12:15 AM is 00:15, 12:00 PM is 12:00.
C10_ParsedTimeOfDay ==
    (pstage = "parsed" /\ IsWellFormed(inTime)) =>
        /\ IsDate(outDate)
        /\ GetHours(outDate) = MeantHour(inTime)
        /\ GetMinutes(outDate) = WrittenMinute(inTime)
        /\ outDate[2] % ClockRes = 0
        /\ outHour = Num(MeantHour(inTime))
        /\ inTime = TimeString(11, 30, PM) =>
               GetHours(outDate) = 23 /\ GetMinutes(outDate) = 30
        /\ inTime = TimeString(12, 15, AM) =>
               GetHours(outDate) = 0 /\ GetMinutes(outDate) = 15
        /\ inTime = TimeString(12, 0, PM) =>
               GetHours(outDate) = 12 /\ GetMinutes(outDate) = 0

\* C10 witness: 12:15 AM has been parsed, to 00:15
C10_Witness ==
    /\ pstage = "parsed"
    /\ inTime = TimeString(12, 15, AM)
    /\ IsDate(outDate)
    /\ GetHours(outDate) = 0
    /\ GetMinutes(outDate) = 15
    /\ outHour = Num(0)

----------------------------------------------------------------------------
(* Properties of the task store and the notification service, under Spec *)

\* the stored active / completed record of a task
ActiveRecord(taskId) == GetTasks[FindIndex(GetTasks, taskId)]
CompletedRecords(taskId) ==
    { i \in 1..Len(GetCompletedTasks) : GetCompletedTasks[i].id = taskId }

\* C1 (as claimed): completeTask(id) on an active task removes it from the
\* active collection and appends it to the completed collection exactly once,
\* with completed = true, completedAt set and no notificationId in the stored
\* completed record.
C1_CompleteClearsHandle ==
    [][\A taskId \in TaskIds :
          (taskId \in ActiveIds /\ CompleteTask(taskId)) =>
              /\ taskId \notin ActiveIds'
              /\ Cardinality(CompletedRecords(taskId)') = 1
              /\ \A i \in CompletedRecords(taskId)' :
                    /\ i = Len(GetCompletedTasks')
                    /\ GetCompletedTasks'[i].completed = TRUE
                    /\ IsDate(GetCompletedTasks'[i].completedAt)
                    /\ GetCompletedTasks'[i].notificationId = Undefined]_vars

C4_UpdateReassignsHandle ==
    [][\A taskId \in TaskIds, updates \in UpdateSets :
          Reschedules(taskId, updates) =>
              \A reads \in ClockReads(now), answer \in Answers :
                  UpdateTask(taskId, updates, reads, answer) =>
                      \E sched \in {Reschedule(ActiveRecord(taskId), updates,
                                               reads, answer)} :
                          ActiveRecord(taskId)'.notificationId =
                              (IF Truthy(sched.handle) THEN sched.handle
                               ELSE Undefined)]_vars

\* every handle the service tracks or a stored task carries
KnownHandles ==
    DOMAIN scheduledTimeouts
    \cup { GetTasks[i].notificationId : i \in 1..Len(GetTasks) }
    \cup { GetCompletedTasks[i].notificationId : i \in 1..Len(GetCompletedTasks) }

\* C6: cancelNotification is idempotent and local: a second cancel of the same
\* handle changes nothing, a cancel of a handle that is no longer tracked (its
\* timer fired, or it was cancelled) changes nothing, and a cancel never
\* removes the tracking entry or the pending timer of another handle.
C6_CancelIdempotentLocal ==
    \A h \in { k \in KnownHandles : Truthy(k) } :
        \E once \in {CancelNotification(h, scheduledTimeouts, timers)} :
            /\ CancelNotification(h, once.timeouts, once.timers) = once
            /\ h \notin DOMAIN scheduledTimeouts =>
                   once = [timeouts |-> scheduledTimeouts, timers |-> timers]
            /\ \A k \in DOMAIN scheduledTimeouts \ {h} :
                   /\ k \in DOMAIN once.timeouts
                   /\ once.timeouts[k] = scheduledTimeouts[k]
            /\ \A tm \in timers : tm.key # h => tm \in once.timers
            /\ once.timers \subseteq timers

\* C6 witness: a stored task carries a web handle that is no longer tracked
\* (a second cancel of it is possible) while another handle's timer is pending
C6_Witness ==
    /\ timers # {}
    /\ \E h \in KnownHandles :
          /\ Truthy(h)
          /\ StartsWith(h, "web")
          /\ h \notin DOMAIN scheduledTimeouts
          /\ \E tm \in timers : tm.key # h /\ tm.key \in DOMAIN scheduledTimeouts

\* C7: when cancelAllTaskNotifications returns, getScheduledNotifications is
\* empty and no timer scheduled before the call is pending any more, so none
\* of them can fire.
C7_CancelAllClears ==
    [][CancelAllTaskNotifications =>
          (GetScheduledNotifications' = {} /\ timers' = {})]_vars

\* C7 witness: an active task carries the web handle of a reminder that is
\* not due before tomorrow, and nothing is tracked or pending
C7_Witness ==
    /\ now < DayTicks
    /\ timers = {}
    /\ GetScheduledNotifications = {}
    /\ permission = "granted"
    /\ \E i \in 1..Len(GetTasks) :
          /\ GetTasks[i].time = Time929
          /\ Truthy(GetTasks[i].notificationId)
          /\ StartsWith(GetTasks[i].notificationId, "web")

\* on the web: the Notification API is missing, the permission is denied, or
\* the permission prompt is not answered with a grant
NotificationsUnavailable(answer) ==
    /\ platform = "web"
    /\ \/ ~hasApi
       \/ permission = "denied"
       \/ permission # "granted" /\ answer # "granted"

----------------------------------------------------------------------------
(* Frame properties of the task store, under Spec *)

IsPrefix(s, t) == Len(s) <= Len(t) /\ SubSeq(t, 1, Len(s)) = s

\* the task object completeTask holds when it saves
CompletedNow(task) == [task EXCEPT !.completed = TRUE, !.completedAt = DateOf(now)]

Others(tasks, taskId) == SelectSeq(tasks, LAMBDA task : task.id # taskId)

SavedArrays ==
    {GetTasks, GetCompletedTasks}
    \cup { Append(GetTasks, NewTask(nextId, time, now)) : time \in TaskTimes }
    \cup { Append(GetCompletedTasks, CompletedNow(GetTasks[i])) :
             i \in 1..Len(GetTasks) }

----------------------------------------------------------------------------
(* The task store call by call: every await is a point where the call of
   another UI flow can run, and AsyncStorage.setItem can reject *)

\* the other flows
OtherFlows(f) == FlowIds \ {f}

\* flow f enters a task-store call: it runs alone when no other call is in
\* progress, and the calls in progress no longer run alone
Started(f, call) ==
    [g \in FlowIds |->
        IF g = f
        THEN [call EXCEPT
                 !.solo = \A h \in OtherFlows(f) : flows[h].pc \in {"idle", "done"},
                 !.before = <<GetTasks, GetCompletedTasks>>]
        ELSE IF flows[g].pc # "idle" THEN [flows[g] EXCEPT !.solo = FALSE]
        ELSE flows[g]]

\* AsyncStorage.setItem resolves, or rejects while rejections are left
WriteOutcomes == IF faults > 0 THEN {TRUE, FALSE} ELSE {TRUE}

\* AsyncStorage.getItem resolves, or rejects while rejections are left
ReadOutcomes == IF faults > 0 THEN {TRUE, FALSE} ELSE {TRUE}

\* getTasks / getCompletedTasks: a rejected getItem is caught and logged, and
\* the empty array is returned
Loaded(blob, ok) == IF ok THEN LoadTasks(blob) ELSE << >>

\* WithHandle that assigns whatever the scheduling call returned
WithHandleAlways(task, notificationId) ==
    [task EXCEPT !.notificationId = notificationId]

\* lines 66-68 of addTask
WithHandle(task, notificationId) ==
    IF Truthy(notificationId) THEN [task EXCEPT !.notificationId = notificationId]
    ELSE task

\* Pushed that pushes onto the collection as persisted at the time of the push
PushedOntoStore(tasks, task) == Append(GetTasks, task)

\* tasks.push(task) on the array the call read
Pushed(tasks, task) == Append(tasks, task)

\* saveTasks / saveCompletedTasks: the blob afterwards; a rejected setItem is
\* caught and logged, and the blob stays
Saved(blob, tasks, ok) == IF ok THEN Stringify(tasks) ELSE blob

\* the flow after a save that resolved or was rejected
AfterSave(flow, ok, pc) ==
    [flow EXCEPT !.pc = pc, !.failed = flow.failed \/ ~ok]

InitFlows ==
    /\ tasksBlob = Null
    /\ completedBlob = Null
    /\ scheduledTimeouts = NoTimeouts
    /\ timers = {}
    /\ now = StartClock
    /\ permission = "default"
    /\ \/ platform = "web" /\ hasApi \in BOOLEAN
       \/ platform = "ios" /\ hasApi = FALSE
    /\ nextId = 1
    /\ flows = NoFlows
    /\ faults = MaxFaults
    /\ started = 0
    /\ IdleChat
    /\ IdleScreens
    /\ inTime = << >>
    /\ pstage = "flows"
    /\ callAt = 0
    /\ outDate = Null
    /\ outHandle = Null
    /\ outHour = NaN

flowFrame ==
    <<now, platform, hasApi, inTime, pstage, callAt, outDate, outHandle, outHour,
      chatVars, screenVars>>

\* the time the tasks of the flows are given
FlowTimes == {Time930}
serviceVars == <<scheduledTimeouts, timers, permission>>

\* handleAddTask builds the task and calls TaskStorage.addTask
StartAddTask(f, time) ==
    /\ pstage = "flows"
    /\ flows[f].pc = "idle"
    /\ started < MaxCalls
    /\ started' = started + 1
    /\ nextId <= MaxTasks
    /\ flows' = Started(f, [IdleFlow EXCEPT !.op = "addTask", !.pc = "getTasks",
                                            !.task = NewTask(nextId, time, now)])
    /\ nextId' = nextId + 1
    /\ UNCHANGED <<tasksBlob, completedBlob, serviceVars, faults, flowFrame>>

\* line 62 of addTask
AddGetTasks(f, ok) ==
    /\ flows[f].op = "addTask"
    /\ flows[f].pc = "getTasks"
    /\ ok \in ReadOutcomes
    /\ faults' = IF ok THEN faults ELSE faults - 1
    /\ flows' = [flows EXCEPT ![f] = [@ EXCEPT !.tasks = Loaded(tasksBlob, ok),
                                               !.pc = "schedule"]]
    /\ UNCHANGED <<storeVars, serviceVars, flowFrame, started>>

\* lines 65-68 of addTask
AddSchedule(f, answer) ==
    /\ flows[f].op = "addTask"
    /\ flows[f].pc = "schedule"
    /\ \E sched \in {ScheduleTaskNotification(flows[f].task, [i \in 1..5 |-> now],
                                              answer, scheduledTimeouts, timers)} :
          /\ scheduledTimeouts' = sched.timeouts
          /\ timers' = sched.timers
          /\ permission' = sched.permission
          /\ flows' = [flows EXCEPT ![f] =
                          [@ EXCEPT !.handle = sched.handle,
                                    !.task = WithHandle(@, sched.handle),
                                    !.pc = "saveTasks"]]
    /\ UNCHANGED <<storeVars, faults, flowFrame, started>>

\* lines 70-71 of addTask
AddSaveTasks(f, ok) ==
    /\ flows[f].op = "addTask"
    /\ flows[f].pc = "saveTasks"
    /\ ok \in WriteOutcomes
    /\ tasksBlob' = Saved(tasksBlob, Pushed(flows[f].tasks, flows[f].task), ok)
    /\ faults' = IF ok THEN faults ELSE faults - 1
    /\ flows' = [flows EXCEPT ![f] = AfterSave(@, ok, "done")]
    /\ UNCHANGED <<completedBlob, nextId, serviceVars, flowFrame, started>>

\* handleCompleteTask calls TaskStorage.completeTask
StartCompleteTask(f, taskId) ==
    /\ pstage = "flows"
    /\ flows[f].pc = "idle"
    /\ started < MaxCalls
    /\ started' = started + 1
    /\ taskId \in ActiveIds
    /\ flows' = Started(f, [IdleFlow EXCEPT !.op = "completeTask",
                                            !.pc = "getTasks", !.taskId = taskId])
    /\ UNCHANGED <<storeVars, serviceVars, faults, flowFrame>>

\* line 75 of completeTask
CompleteGetTasks(f, ok) ==
    /\ flows[f].op = "completeTask"
    /\ flows[f].pc = "getTasks"
    /\ ok \in ReadOutcomes
    /\ faults' = IF ok THEN faults ELSE faults - 1
    /\ flows' = [flows EXCEPT ![f] = [@ EXCEPT !.tasks = Loaded(tasksBlob, ok),
                                               !.pc = "getCompletedTasks"]]
    /\ UNCHANGED <<storeVars, serviceVars, flowFrame, started>>

\* lines 76-91 of completeTask: the completed collection is read, the task is
\* looked up, marked, its reminder cancelled, and it is moved between the
\* two arrays of the call
CompleteGetCompletedTasks(f, ok) ==
    /\ flows[f].op = "completeTask"
    /\ flows[f].pc = "getCompletedTasks"
    /\ ok \in ReadOutcomes
    /\ faults' = IF ok THEN faults ELSE faults - 1
    /\ \E taskIndex \in {FindIndex(flows[f].tasks, flows[f].taskId)} :
          IF taskIndex = 0
          THEN /\ flows' = [flows EXCEPT ![f] = [@ EXCEPT !.pc = "done"]]
               /\ UNCHANGED serviceVars
          ELSE \E task \in {CompletedNow(flows[f].tasks[taskIndex])} :
               \E svc \in {CancelIfSet(task)} :
                   /\ scheduledTimeouts' = svc.timeouts
                   /\ timers' = svc.timers
                   /\ UNCHANGED permission
                   /\ flows' = [flows EXCEPT ![f] =
                          [@ EXCEPT !.task = task,
                                    !.completedTasks =
                                        Append(Loaded(completedBlob, ok), task),
                                    !.tasks = Splice(@, taskIndex),
                                    !.pc = "saveTasks"]]
    /\ UNCHANGED <<storeVars, flowFrame, started>>

\* line 93 of completeTask
CompleteSaveTasks(f, ok) ==
    /\ flows[f].op = "completeTask"
    /\ flows[f].pc = "saveTasks"
    /\ ok \in WriteOutcomes
    /\ tasksBlob' = Saved(tasksBlob, flows[f].tasks, ok)
    /\ faults' = IF ok THEN faults ELSE faults - 1
    /\ flows' = [flows EXCEPT ![f] = AfterSave(@, ok, "saveCompletedTasks")]
    /\ UNCHANGED <<completedBlob, nextId, serviceVars, flowFrame, started>>

\* line 94 of completeTask
CompleteSaveCompletedTasks(f, ok) ==
    /\ flows[f].op = "completeTask"
    /\ flows[f].pc = "saveCompletedTasks"
    /\ ok \in WriteOutcomes
    /\ completedBlob' = Saved(completedBlob, flows[f].completedTasks, ok)
    /\ faults' = IF ok THEN faults ELSE faults - 1
    /\ flows' = [flows EXCEPT ![f] = AfterSave(@, ok, "done")]
    /\ UNCHANGED <<tasksBlob, nextId, serviceVars, flowFrame, started>>

\* a UI handler calls TaskStorage.deleteTask
StartDeleteTask(f, taskId) ==
    /\ pstage = "flows"
    /\ flows[f].pc = "idle"
    /\ started < MaxCalls
    /\ started' = started + 1
    /\ taskId \in ActiveIds
    /\ flows' = Started(f, [IdleFlow EXCEPT !.op = "deleteTask",
                                            !.pc = "getTasks", !.taskId = taskId])
    /\ UNCHANGED <<storeVars, serviceVars, faults, flowFrame>>

\* lines 99-107 of deleteTask
DeleteGetTasks(f, ok) ==
    /\ flows[f].op = "deleteTask"
    /\ flows[f].pc = "getTasks"
    /\ ok \in ReadOutcomes
    /\ faults' = IF ok THEN faults ELSE faults - 1
    /\ \E tasks \in {Loaded(tasksBlob, ok)} :
       \E index \in {FindIndex(tasks, flows[f].taskId)} :
       \E svc \in {IF index # 0 THEN CancelIfSet(tasks[index])
                   ELSE [timeouts |-> scheduledTimeouts, timers |-> timers]} :
           /\ scheduledTimeouts' = svc.timeouts
           /\ timers' = svc.timers
           /\ flows' = [flows EXCEPT ![f] =
                           [@ EXCEPT !.tasks = FilterOut(tasks, flows[f].taskId),
                                     !.pc = "saveTasks"]]
    /\ UNCHANGED <<storeVars, permission, flowFrame, started>>

\* line 108 of deleteTask
DeleteSaveTasks(f, ok) ==
    /\ flows[f].op = "deleteTask"
    /\ flows[f].pc = "saveTasks"
    /\ ok \in WriteOutcomes
    /\ tasksBlob' = Saved(tasksBlob, flows[f].tasks, ok)
    /\ faults' = IF ok THEN faults ELSE faults - 1
    /\ flows' = [flows EXCEPT ![f] = AfterSave(@, ok, "done")]
    /\ UNCHANGED <<completedBlob, nextId, serviceVars, flowFrame, started>>

\* the call has returned to the UI handler, which goes on to other things
Return(f) ==
    /\ flows[f].pc = "done"
    /\ flows' = [flows EXCEPT ![f] = IdleFlow]
    /\ UNCHANGED <<storeVars, serviceVars, faults, flowFrame, started>>

NextFlows ==
    \/ \E f \in FlowIds, time \in FlowTimes : StartAddTask(f, time)
    \/ \E f \in FlowIds, ok \in BOOLEAN : AddGetTasks(f, ok)
    \/ \E f \in FlowIds, answer \in Answers : AddSchedule(f, answer)
    \/ \E f \in FlowIds, ok \in BOOLEAN : AddSaveTasks(f, ok)
    \/ \E f \in FlowIds, taskId \in TaskIds : StartCompleteTask(f, taskId)
    \/ \E f \in FlowIds, ok \in BOOLEAN : CompleteGetTasks(f, ok)
    \/ \E f \in FlowIds, ok \in BOOLEAN : CompleteGetCompletedTasks(f, ok)
    \/ \E f \in FlowIds, ok \in BOOLEAN : CompleteSaveTasks(f, ok)
    \/ \E f \in FlowIds, ok \in BOOLEAN : CompleteSaveCompletedTasks(f, ok)
    \/ \E f \in FlowIds, taskId \in TaskIds : StartDeleteTask(f, taskId)
    \/ \E f \in FlowIds, ok \in BOOLEAN : DeleteGetTasks(f, ok)
    \/ \E f \in FlowIds, ok \in BOOLEAN : DeleteSaveTasks(f, ok)
    \/ \E f \in FlowIds : Return(f)

SpecFlows == InitFlows /\ [][NextFlows]_vars

----------------------------------------------------------------------------
(* Properties of the task store call by call, under SpecFlows *)

\* the notificationId a stored task has for what the scheduling call returned
StoredHandle(handle) == IF Truthy(handle) THEN handle ELSE Undefined

\* C11: in addTask the scheduling call has returned before the task is
\* written: a task whose addTask has not got past scheduling is not in the
\* persisted active collection, and the write appends the task with a
\* notificationId exactly when scheduling returned a handle, equal to it.
C11_ScheduleBeforeSave ==
    [][\A f \in FlowIds :
          /\ AddSaveTasks(f, TRUE) =>
                 /\ flows[f].task.id \notin ActiveIds
                 /\ GetTasks' # << >>
                 /\ GetTasks'[Len(GetTasks')].id = flows[f].task.id
                 /\ GetTasks'[Len(GetTasks')].notificationId =
                        StoredHandle(flows[f].handle)
          /\ (flows'[f].op = "addTask" /\ flows'[f].pc \in {"getTasks", "schedule"})
                 => flows'[f].task.id \notin ActiveIds']_vars

\* C11 witness: an addTask call has returned; scheduling gave it a handle and
\* the persisted task carries that handle
C11_Witness ==
    \E f \in FlowIds :
        /\ flows[f].op = "addTask"
        /\ flows[f].pc = "done"
        /\ ~flows[f].failed
        /\ Truthy(flows[f].handle)
        /\ \E i \in 1..Len(GetTasks) :
              /\ GetTasks[i].id = flows[f].task.id
              /\ GetTasks[i].notificationId = flows[f].handle

\* C15 (as claimed): a task-store call in which a storage write failed, and
\* which ran with no other call in progress, raises nothing and leaves both
\* persisted collections as they were before the call.
C15_FailedWriteIsNoOp ==
    \A f \in FlowIds :
        (flows[f].pc = "done" /\ flows[f].failed /\ flows[f].solo) =>
            /\ ~flows[f].raised
            /\ <<GetTasks, GetCompletedTasks>> = flows[f].before

\* two addTask calls have returned, neither with a failed write, and each had
\* read the active collection before the other wrote it
BothReadFirst(f, g) ==
    /\ f # g
    /\ flows[f].op = "addTask" /\ flows[f].pc = "done" /\ ~flows[f].failed
    /\ flows[g].op = "addTask" /\ flows[g].pc = "done" /\ ~flows[g].failed
    /\ flows[f].task.id \notin IdsOf(flows[g].tasks)
    /\ flows[g].task.id \notin IdsOf(flows[f].tasks)

\* C16: when two addTask calls for distinct tasks have both read the active
\* collection before either wrote it, the later write replaces the earlier
\* one: the two tasks are never both persisted, and neither call raised.
C16_InterleavedAddsClobber ==
    \A f \in FlowIds, g \in FlowIds :
        BothReadFirst(f, g) =>
            /\ ~(flows[f].task.id \in ActiveIds /\ flows[g].task.id \in ActiveIds)
            /\ ~flows[f].raised
            /\ ~flows[g].raised

\* C16 witness: two interleaved addTask calls have returned without an error
\* and exactly one of the two tasks is persisted
C16_Witness ==
    \E f \in FlowIds, g \in FlowIds :
        /\ BothReadFirst(f, g)
        /\ ~flows[f].raised
        /\ ~flows[g].raised
        /\ Len(GetTasks) = 1
        /\ flows[f].task.id \notin ActiveIds
        /\ flows[g].task.id \in ActiveIds

----------------------------------------------------------------------------
(* ChatbotService: strings are sequences of characters *)

UpperCaseLetters ==
    <<"A", "B", "C", "D", "E", "F", "G", "H", "I", "J", "K", "L", "M",
      "N", "O", "P", "Q", "R", "S", "T", "U", "V", "W", "X", "Y", "Z">>
LowerCaseLetters ==
    <<"a", "b", "c", "d", "e", "f", "g", "h", "i", "j", "k", "l", "m",
      "n", "o", "p", "q", "r", "s", "t", "u", "v", "w", "x", "y", "z">>

\* the position of a character in a sequence of characters, 0 when absent
IndexOf(chars, c) ==
    IF \E i \in 1..Len(chars) : chars[i] = c
    THEN CHOOSE i \in 1..Len(chars) : chars[i] = c
    ELSE 0

LowerChar(c) ==
    IF IndexOf(UpperCaseLetters, c) # 0
    THEN LowerCaseLetters[IndexOf(UpperCaseLetters, c)] ELSE c
UpperChar(c) ==
    IF IndexOf(LowerCaseLetters, c) # 0
    THEN UpperCaseLetters[IndexOf(LowerCaseLetters, c)] ELSE c

\* String.prototype.toLowerCase
ToLowerCase(s) == [i \in 1..Len(s) |-> LowerChar(s[i])]

\* String.prototype.trim
Trim(s) ==
    IF \A i \in 1..Len(s) : s[i] = " " THEN << >>
    ELSE SubSeq(s, CHOOSE i \in 1..Len(s) :
                       s[i] # " " /\ \A j \in 1..(i - 1) : s[j] = " ",
                   CHOOSE i \in 1..Len(s) :
                       s[i] # " " /\ \A j \in (i + 1)..Len(s) : s[j] = " ")

\* sub occurs in s at position i
OccursAt(s, sub, i) ==
    i + Len(sub) - 1 <= Len(s) /\ SubSeq(s, i, i + Len(sub) - 1) = sub

\* String.prototype.includes
Includes(s, sub) == \E i \in 1..(Len(s) - Len(sub) + 1) : OccursAt(s, sub, i)

\* String.prototype.substring(0, n) followed by + '...'
Ellipsis(s, n) == SubSeq(s, 1, n) \o <<".", ".", ".">>

\* a regular expression that is an alternation of literals is the sequence of
\* its alternatives; RegExp.prototype.test
Test(pattern, s) == \E k \in 1..Len(pattern) : Includes(s, pattern[k])

\* patterns.some(pattern => pattern.test(s))
Some(patterns, s) == \E p \in 1..Len(patterns) : Test(patterns[p], s)

\* String.prototype.match with a /g pattern: the matches from position i on,
\* left to right, the first alternative that matches at a position taken
RECURSIVE MatchAll(_, _, _)
MatchAll(pattern, s, i) ==
    IF i > Len(s) THEN << >>
    ELSE IF \E k \in 1..Len(pattern) : OccursAt(s, pattern[k], i)
    THEN Only({ <<pattern[k]>> \o MatchAll(pattern, s, i + Len(pattern[k]))
                : k \in {CHOOSE k \in 1..Len(pattern) :
                            /\ OccursAt(s, pattern[k], i)
                            /\ \A j \in 1..(k - 1) : ~OccursAt(s, pattern[j], i)} })
    ELSE MatchAll(pattern, s, i + 1)

\* the matches of every pattern in turn, pushed onto one array
RECURSIVE PushMatches(_, _)
PushMatches(patterns, s) ==
    IF patterns = << >> THEN << >>
    ELSE MatchAll(Head(patterns), s, 1) \o PushMatches(Tail(patterns), s)

\* String.prototype.split(/\s+/): the words between runs of spaces
RECURSIVE NonEmpty(_)
NonEmpty(parts) ==
    IF parts = << >> THEN << >>
    ELSE IF Head(parts) = << >> THEN NonEmpty(Tail(parts))
    ELSE <<Head(parts)>> \o NonEmpty(Tail(parts))
Words(s) == NonEmpty(Split(s, " "))

\* taskPatterns of analyzeMessage
TaskPatterns ==
    <<<<<<"i", " ", "w", "a", "n", "t", " ", "t", "o">>,
        <<"i", " ", "n", "e", "e", "d", " ", "t", "o">>,
        <<"i", " ", "s", "h", "o", "u", "l", "d">>,
        <<"i", " ", "h", "a", "v", "e", " ", "t", "o">>,
        <<"i", " ", "p", "l", "a", "n", " ", "t", "o">>>>,
      <<<<"r", "e", "m", "i", "n", "d", " ", "m", "e", " ", "t", "o">>,
        <<"h", "e", "l", "p", " ", "m", "e">>>>,
      <<<<"s", "c", "h", "e", "d", "u", "l", "e">>,
        <<"p", "l", "a", "n">>,
        <<"o", "r", "g", "a", "n", "i", "z", "e">>>>,
      <<<<"g", "o", "a", "l">>,
        <<"o", "b", "j", "e", "c", "t", "i", "v", "e">>,
        <<"t", "a", "r", "g", "e", "t">>>>,
      <<<<"t", "a", "s", "k">>,
        <<"t", "o", "d", "o">>,
        <<"a", "c", "t", "i", "v", "i", "t", "y">>>>>>

\* listPatterns of analyzeMessage
ListPatterns ==
    <<<<<<"l", "i", "s", "t">>,
        <<"s", "h", "o", "w", " ", "m", "e">>,
        <<"w", "h", "a", "t", " ", "a", "r", "e">>,
        <<"g", "i", "v", "e", " ", "m", "e">>,
        <<"s", "u", "g", "g", "e", "s", "t">>,
        <<"r", "e", "c", "o", "m", "m", "e", "n", "d">>>>,
      <<<<"i", "d", "e", "a", "s", " ", "f", "o", "r">>,
        <<"e", "x", "a", "m", "p", "l", "e", "s", " ", "o", "f">>,
        <<"t", "y", "p", "e", "s", " ", "o", "f">>>>,
      <<<<"h", "o", "b", "b", "i", "e", "s">>,
        <<"a", "c", "t", "i", "v", "i", "t", "i", "e", "s">>,
        <<"e", "x", "e", "r", "c", "i", "s", "e", "s">>,
        <<"b", "o", "o", "k", "s">>,
        <<"m", "o", "v", "i", "e", "s">>,
        <<"r", "e", "c", "i", "p", "e", "s">>>>,
      <<<<"h", "o", "w", " ", "t", "o">>,
        <<"w", "a", "y", "s", " ", "t", "o">>,
        <<"m", "e", "t", "h", "o", "d", "s", " ", "t", "o">>>>>>

\* planningPatterns of analyzeMessage
PlanningPatterns ==
    <<<<<<"p", "l", "a", "n">>,
        <<"s", "c", "h", "e", "d", "u", "l", "e">>,
        <<"o", "r", "g", "a", "n", "i", "z", "e">>,
        <<"s", "t", "r", "u", "c", "t", "u", "r", "e">>>>,
      <<<<"w", "e", "e", "k">>,
        <<"d", "a", "y">>,
        <<"m", "o", "n", "t", "h">>,
        <<"r", "o", "u", "t", "i", "n", "e">>>>,
      <<<<"p", "r", "o", "d", "u", "c", "t", "i", "v", "i", "t", "y">>,
        <<"e", "f", "f", "i", "c", "i", "e", "n", "c", "y">>,
        <<"t", "i", "m", "e", " ", "m", "a", "n", "a", "g", "e", "m", "e", "n", "t">>>>>>

\* activityPatterns of extractEntities
ActivityPatterns ==
    <<<<<<"e", "x", "e", "r", "c", "i", "s", "e">>,
        <<"w", "o", "r", "k", "o", "u", "t">>,
        <<"g", "y", "m">>,
        <<"r", "u", "n">>,
        <<"w", "a", "l", "k">>,
        <<"y", "o", "g", "a">>>>,
      <<<<"r", "e", "a", "d">>,
        <<"b", "o", "o", "k">>,
        <<"s", "t", "u", "d", "y">>,
        <<"l", "e", "a", "r", "n">>>>,
      <<<<"c", "o", "o", "k">>,
        <<"r", "e", "c", "i", "p", "e">>,
        <<"m", "e", "a", "l">>,
        <<"f", "o", "o", "d">>>>,
      <<<<"w", "o", "r", "k">>,
        <<"p", "r", "o", "j", "e", "c", "t">>,
        <<"m", "e", "e", "t", "i", "n", "g">>,
        <<"t", "a", "s", "k">>>>,
      <<<<"h", "o", "b", "b", "y">>,
        <<"a", "r", "t">>,
        <<"m", "u", "s", "i", "c">>,
        <<"p", "a", "i", "n", "t">>,
        <<"d", "r", "a", "w">>>>>>

\* timePatterns of extractEntities
TimePatterns ==
    <<<<<<"t", "o", "d", "a", "y">>,
        <<"t", "o", "m", "o", "r", "r", "o", "w">>,
        <<"t", "o", "n", "i", "g", "h", "t">>>>,
      <<<<"m", "o", "r", "n", "i", "n", "g">>,
        <<"a", "f", "t", "e", "r", "n", "o", "o", "n">>,
        <<"e", "v", "e", "n", "i", "n", "g">>,
        <<"n", "i", "g", "h", "t">>>>,
      <<<<"w", "e", "e", "k">>,
        <<"m", "o", "n", "t", "h">>,
        <<"y", "e", "a", "r">>>>,
      <<<<"m", "o", "n", "d", "a", "y">>,
        <<"t", "u", "e", "s", "d", "a", "y">>,
        <<"w", "e", "d", "n", "e", "s", "d", "a", "y">>,
        <<"t", "h", "u", "r", "s", "d", "a", "y">>,
        <<"f", "r", "i", "d", "a", "y">>,
        <<"s", "a", "t", "u", "r", "d", "a", "y">>,
        <<"s", "u", "n", "d", "a", "y">>>>>>

QuestionMark == <<"?">>

\* AnalyzeIntent that tries the list patterns before the task patterns
AnalyzeIntentListFirst(lowerMessage) ==
    IF Some(ListPatterns, lowerMessage)
    THEN [intent |-> "list_request", confidence |-> 9]
    ELSE IF Some(TaskPatterns, lowerMessage)
    THEN [intent |-> "task_creation", confidence |-> 8]
    ELSE IF Some(PlanningPatterns, lowerMessage)
    THEN [intent |-> "planning", confidence |-> 7]
    ELSE IF Includes(lowerMessage, QuestionMark)
    THEN [intent |-> "information_request", confidence |-> 6]
    ELSE [intent |-> "general_chat", confidence |-> 5]

\* lines 39-78 of analyzeMessage; the confidence is in tenths
AnalyzeIntent(lowerMessage) ==
    IF Some(TaskPatterns, lowerMessage)
    THEN [intent |-> "task_creation", confidence |-> 8]
    ELSE IF Some(ListPatterns, lowerMessage)
    THEN [intent |-> "list_request", confidence |-> 9]
    ELSE IF Some(PlanningPatterns, lowerMessage)
    THEN [intent |-> "planning", confidence |-> 7]
    ELSE IF Includes(lowerMessage, QuestionMark)
    THEN [intent |-> "information_request", confidence |-> 6]
    ELSE [intent |-> "general_chat", confidence |-> 5]

\* an entity list is set only when something matched
EntityList(matches) == IF Len(matches) > 0 THEN matches ELSE Undefined

\* ChatbotService.extractEntities
ExtractEntities(s) ==
    [activities |-> EntityList(PushMatches(ActivityPatterns, s)),
     timeframes |-> EntityList(PushMatches(TimePatterns, s))]

PositiveWords ==
    {<<"g", "o", "o", "d">>,
     <<"g", "r", "e", "a", "t">>,
     <<"a", "w", "e", "s", "o", "m", "e">>,
     <<"e", "x", "c", "e", "l", "l", "e", "n", "t">>,
     <<"l", "o", "v", "e">>,
     <<"l", "i", "k", "e">>,
     <<"h", "a", "p", "p", "y">>,
     <<"e", "x", "c", "i", "t", "e", "d">>,
     <<"a", "m", "a", "z", "i", "n", "g">>,
     <<"w", "o", "n", "d", "e", "r", "f", "u", "l">>}
NegativeWords ==
    {<<"b", "a", "d">>,
     <<"t", "e", "r", "r", "i", "b", "l", "e">>,
     <<"h", "a", "t", "e">>,
     <<"d", "i", "s", "l", "i", "k", "e">>,
     <<"s", "a", "d">>,
     <<"a", "n", "g", "r", "y">>,
     <<"f", "r", "u", "s", "t", "r", "a", "t", "e", "d">>,
     <<"t", "i", "r", "e", "d">>,
     <<"s", "t", "r", "e", "s", "s", "e", "d">>,
     <<"d", "i", "f", "f", "i", "c", "u", "l", "t">>}

\* how many of the words are in the list
CountIn(words, list) == Cardinality({ i \in 1..Len(words) : words[i] \in list })

\* ChatbotService.analyzeSentiment
AnalyzeSentiment(s) ==
    Only({ IF CountIn(words, PositiveWords) > CountIn(words, NegativeWords)
           THEN "positive"
           ELSE IF CountIn(words, NegativeWords) > CountIn(words, PositiveWords)
           THEN "negative"
           ELSE "neutral"
           : words \in {Words(ToLowerCase(s))} })

\* ChatbotService.analyzeMessage
AnalyzeMessage(msg) ==
    Only({ Only({ [intent |-> found.intent,
                   entities |-> ExtractEntities(lowerMessage),
                   sentiment |-> AnalyzeSentiment(lowerMessage),
                   confidence |-> found.confidence]
                  : found \in {AnalyzeIntent(lowerMessage)} })
           : lowerMessage \in {Trim(ToLowerCase(msg))} })

\* s.includes(k) for some keyword k of the list
IncludesAny(s, keywords) == \E k \in keywords : Includes(s, k)

\* the topics of handleListRequest in the order they are tried: the keywords
\* looked for and the suggestions returned (without their leading emoji)
ListTopics ==
    <<[topic |-> "Hobby",
       keywords |-> {<<"h", "o", "b", "b", "i", "e", "s">>,
                    <<"h", "o", "b", "b", "y">>},
       suggestions |->
           <<"Digital art and illustration",
             "Reading fiction and non-fiction",
             "Learning a musical instrument",
             "Indoor gardening and plant care",
             "Photography and photo editing",
             "Cooking and trying new recipes",
             "Creative writing and journaling",
             "Puzzle solving and brain games",
             "Learning a new language",
             "Fitness and outdoor activities">>],
      [topic |-> "Exercise",
       keywords |-> {<<"e", "x", "e", "r", "c", "i", "s", "e">>,
                    <<"w", "o", "r", "k", "o", "u", "t">>,
                    <<"f", "i", "t", "n", "e", "s", "s">>},
       suggestions |->
           <<"30-minute morning jog",
             "Bodyweight strength training",
             "Yoga and stretching routine",
             "Cycling or stationary bike",
             "Swimming laps",
             "High-intensity interval training (HIIT)",
             "Brisk walking in nature",
             "Weight lifting at the gym",
             "Pilates for core strength",
             "Sports like tennis or badminton">>],
      [topic |-> "Book",
       keywords |-> {<<"b", "o", "o", "k">>,
                    <<"r", "e", "a", "d">>},
       suggestions |->
           <<"Atomic Habits by James Clear (Self-help)",
             "Sapiens by Yuval Noah Harari (History)",
             "The Seven Husbands of Evelyn Hugo (Fiction)",
             "Think and Grow Rich by Napoleon Hill (Business)",
             "Thinking, Fast and Slow by Daniel Kahneman (Psychology)",
             "The Martian by Andy Weir (Sci-Fi)",
             "Educated by Tara Westover (Memoir)",
             "Deep Work by Cal Newport (Productivity)",
             "Becoming by Michelle Obama (Biography)",
             "The Midnight Library by Matt Haig (Fiction)">>],
      [topic |-> "Learning",
       keywords |-> {<<"l", "e", "a", "r", "n">>,
                    <<"s", "k", "i", "l", "l">>},
       suggestions |->
           <<"Programming (Python, JavaScript, etc.)",
             "Graphic design and digital art",
             "Data analysis and Excel mastery",
             "Public speaking and presentation",
             "Social media marketing",
             "Advanced cooking techniques",
             "Photography and photo editing",
             "Creative writing and storytelling",
             "Playing a musical instrument",
             "Learning a new language">>],
      [topic |-> "Productivity",
       keywords |-> {<<"p", "r", "o", "d", "u", "c", "t", "i", "v", "e">>,
                    <<"p", "r", "o", "d", "u", "c", "t", "i", "v", "i", "t", "y">>},
       suggestions |->
           <<"Pomodoro Technique (25-min focused work)",
             "Time blocking your calendar",
             "Setting SMART goals",
             "Digital detox periods",
             "Morning routine optimization",
             "Weekly planning sessions",
             "Mindfulness and meditation",
             "Tracking habits and progress",
             "Learning to say no effectively",
             "Energy management over time management">>],
      [topic |-> "Recipe",
       keywords |-> {<<"r", "e", "c", "i", "p", "e">>,
                    <<"c", "o", "o", "k">>,
                    <<"m", "e", "a", "l">>},
       suggestions |->
           <<"One-pot pasta with vegetables",
             "Mediterranean quinoa salad",
             "Slow cooker chicken curry",
             "Fluffy weekend pancakes",
             "Homemade ramen bowl",
             "Healthy wrap with hummus",
             "Homemade pizza with fresh toppings",
             "Fried rice with mixed vegetables",
             "Hearty lentil soup",
             "No-bake energy balls">>]>>

\* the default list response of handleListRequest
TopicMenu ==
    <<"Hobbies to try", "Exercise routines", "Books to read",
      "Skills to learn", "Productivity tips", "Healthy recipes">>

\* a reply: its text is the reply family and which of its texts was drawn
Reply(family, pick, suggestedTask, suggestions) ==
    [text |-> <<family, pick>>, suggestedTask |-> suggestedTask,
     suggestions |-> suggestions]

\* HandleListRequest that answers every list request with the topic menu
HandleListRequestMenuOnly(msg) == Reply("list:menu", 1, Undefined, TopicMenu)

\* ChatbotService.handleListRequest
HandleListRequest(msg) ==
    Only({ IF \E t \in 1..Len(ListTopics) :
                  IncludesAny(lowerMessage, ListTopics[t].keywords)
           THEN Only({ Reply(ListTopics[t].topic, 1, Undefined,
                             ListTopics[t].suggestions)
                       : t \in {CHOOSE t \in 1..Len(ListTopics) :
                                   /\ IncludesAny(lowerMessage, ListTopics[t].keywords)
                                   /\ \A u \in 1..(t - 1) :
                                         ~IncludesAny(lowerMessage,
                                                      ListTopics[u].keywords)} })
           ELSE Reply("list:menu", 1, Undefined, TopicMenu)
           : lowerMessage \in {ToLowerCase(msg)} })

\* the prefixes the title clean-up of generateTaskFromMessage removes
TitlePrefixes ==
    <<<<"i", " ", "w", "a", "n", "t", " ", "t", "o">>,
      <<"i", " ", "n", "e", "e", "d", " ", "t", "o">>,
      <<"i", " ", "s", "h", "o", "u", "l", "d">>,
      <<"i", " ", "h", "a", "v", "e", " ", "t", "o">>,
      <<"i", " ", "p", "l", "a", "n", " ", "t", "o">>,
      <<"r", "e", "m", "i", "n", "d", " ", "m", "e", " ", "t", "o">>,
      <<"h", "e", "l", "p", " ", "m", "e">>>>

\* s without the spaces it starts with
RECURSIVE DropSpaces(_)
DropSpaces(s) ==
    IF s # << >> /\ Head(s) = " " THEN DropSpaces(Tail(s)) ELSE s

\* title.replace(/^(...)\s*/i, '')
StripPrefix(title) ==
    IF \E k \in 1..Len(TitlePrefixes) : OccursAt(ToLowerCase(title), TitlePrefixes[k], 1)
    THEN Only({ DropSpaces(SubSeq(title, Len(TitlePrefixes[k]) + 1, Len(title)))
                : k \in {CHOOSE k \in 1..Len(TitlePrefixes) :
                            /\ OccursAt(ToLowerCase(title), TitlePrefixes[k], 1)
                            /\ \A j \in 1..(k - 1) :
                                  ~OccursAt(ToLowerCase(title), TitlePrefixes[j], 1)} })
    ELSE title

\* title.charAt(0).toUpperCase() + title.slice(1)
Capitalize(s) == IF s = << >> THEN s ELSE <<UpperChar(Head(s))>> \o Tail(s)

\* lines 413-420 of generateTaskFromMessage
TaskTitle(msg) ==
    Only({ Capitalize(StripPrefix(IF Len(title) > 50 THEN Ellipsis(title, 47)
                                  ELSE title))
           : title \in {Nth(Split(Nth(Split(msg, "."), 1), ","), 1)} })

\* lines 423-432 of generateTaskFromMessage, in the order of the else-if chain
CategoryKeywords ==
    <<[value |-> "Work",
       keywords |-> {<<"w", "o", "r", "k">>,
                    <<"j", "o", "b">>,
                    <<"m", "e", "e", "t", "i", "n", "g">>,
                    <<"p", "r", "o", "j", "e", "c", "t">>,
                    <<"o", "f", "f", "i", "c", "e">>}],
      [value |-> "Health",
       keywords |-> {<<"e", "x", "e", "r", "c", "i", "s", "e">>,
                    <<"g", "y", "m">>,
                    <<"h", "e", "a", "l", "t", "h">>,
                    <<"d", "o", "c", "t", "o", "r">>,
                    <<"w", "o", "r", "k", "o", "u", "t">>}],
      [value |-> "Learning",
       keywords |-> {<<"l", "e", "a", "r", "n">>,
                    <<"s", "t", "u", "d", "y">>,
                    <<"c", "o", "u", "r", "s", "e">>,
                    <<"r", "e", "a", "d">>,
                    <<"b", "o", "o", "k">>}],
      [value |-> "Social",
       keywords |-> {<<"f", "r", "i", "e", "n", "d">>,
                    <<"f", "a", "m", "i", "l", "y">>,
                    <<"c", "a", "l", "l">>,
                    <<"v", "i", "s", "i", "t">>,
                    <<"s", "o", "c", "i", "a", "l">>}]>>

\* lines 435-440 of generateTaskFromMessage
PriorityKeywords ==
    <<[value |-> "high",
       keywords |-> {<<"u", "r", "g", "e", "n", "t">>,
                    <<"a", "s", "a", "p">>,
                    <<"d", "e", "a", "d", "l", "i", "n", "e">>,
                    <<"i", "m", "p", "o", "r", "t", "a", "n", "t">>,
                    <<"c", "r", "i", "t", "i", "c", "a", "l">>}],
      [value |-> "low",
       keywords |-> {<<"s", "o", "m", "e", "d", "a", "y">>,
                    <<"e", "v", "e", "n", "t", "u", "a", "l", "l", "y">>,
                    <<"w", "h", "e", "n", " ", "i", " ", "h", "a", "v", "e", " ", "t", "i", "m", "e">>,
                    <<"m", "a", "y", "b", "e">>}]>>

\* lines 447-454 of generateTaskFromMessage
DaytimeKeywords ==
    <<[value |-> "morning",
       keywords |-> {<<"m", "o", "r", "n", "i", "n", "g">>}],
      [value |-> "afternoon",
       keywords |-> {<<"a", "f", "t", "e", "r", "n", "o", "o", "n">>}],
      [value |-> "evening",
       keywords |-> {<<"e", "v", "e", "n", "i", "n", "g">>}],
      [value |-> "night",
       keywords |-> {<<"n", "i", "g", "h", "t">>}]>>

\* an else-if chain over keyword lists: the value of the first list with a
\* keyword in the message, otherwise the default
FirstMatch(chain, lowerMessage, default) ==
    IF \E k \in 1..Len(chain) : IncludesAny(lowerMessage, chain[k].keywords)
    THEN chain[CHOOSE k \in 1..Len(chain) :
                   /\ IncludesAny(lowerMessage, chain[k].keywords)
                   /\ \A j \in 1..(k - 1) :
                         ~IncludesAny(lowerMessage, chain[j].keywords)].value
    ELSE default

\* lines 443-461 of generateTaskFromMessage
SuggestedTime(lowerMessage, hour) ==
    Only({ IF daytime = "morning" THEN TimeString(9, 0, AM)
           ELSE IF daytime = "afternoon" THEN TimeString(2, 0, PM)
           ELSE IF daytime = "evening" THEN TimeString(7, 0, PM)
           ELSE IF daytime = "night" THEN TimeString(8, 0, PM)
           ELSE IF hour < 12 THEN TimeString(10, 0, AM)
           ELSE IF hour < 17 THEN TimeString(3, 0, PM)
           ELSE TimeString(8, 0, PM)
           : daytime \in {FirstMatch(DaytimeKeywords, lowerMessage, "none")} })

\* ChatbotService.generateTaskFromMessage
GenerateTaskFromMessage(msg, hour) ==
    Only({ [title |-> TaskTitle(msg),
            description |-> IF Len(msg) > 100 THEN Ellipsis(msg, 97) ELSE msg,
            time |-> SuggestedTime(lowerMessage, hour),
            category |-> FirstMatch(CategoryKeywords, lowerMessage, "Personal"),
            priority |-> FirstMatch(PriorityKeywords, lowerMessage, "medium")]
           : lowerMessage \in {ToLowerCase(msg)} })

\* ChatbotService.handleTaskCreation
HandleTaskCreation(msg, pick, hour) ==
    Reply("task", pick, Obj(GenerateTaskFromMessage(msg, hour)), Undefined)

\* ChatbotService.handlePlanningRequest
HandlePlanningRequest(pick) ==
    Reply("planning", pick, Undefined,
          <<"Plan my daily routine", "Organize my weekly schedule",
            "Set monthly goals", "Create a morning routine",
            "Plan a project timeline">>)

HowTo == <<"h", "o", "w", " ", "t", "o">>

\* ChatbotService.handleInformationRequest
HandleInformationRequest(msg, pick) ==
    IF Includes(ToLowerCase(msg), HowTo)
    THEN Reply("information:how to", 1, Undefined,
               <<"How to build better habits", "How to manage time effectively",
                 "How to stay motivated", "How to learn new skills",
                 "How to be more productive">>)
    ELSE Reply("information", pick, Undefined, Undefined)

Greetings ==
    {<<"h", "e", "l", "l", "o">>,
     <<"h", "i">>,
     <<"h", "e", "y">>}
Weariness ==
    {<<"t", "i", "r", "e", "d">>,
     <<"s", "t", "r", "e", "s", "s", "e", "d">>}

\* ChatbotService.handleGeneralChat
HandleGeneralChat(msg, sentiment, pick) ==
    IF IncludesAny(ToLowerCase(msg), Greetings)
    THEN Reply("chat:greeting", 1, Undefined,
               <<"I want to be more productive", "Help me plan my week",
                 "I need motivation", "Show me some hobbies",
                 "I want to learn something new">>)
    ELSE IF sentiment = "negative" \/ IncludesAny(ToLowerCase(msg), Weariness)
    THEN Reply("chat:motivation", 1, Undefined,
               <<"Take a 10-minute walk", "Organize my workspace",
                 "Call a friend or family member", "Do some light stretching",
                 "Listen to uplifting music">>)
    ELSE Reply("chat", pick, Undefined,
               <<"Help me set a goal", "I want to be more organized",
                 "Show me productivity tips", "Help me plan something",
                 "I need motivation">>)

\* ChatbotService.generateResponse; pick is the text Math.random() draws and
\* hour is new Date().getHours()
GenerateResponse(msg, result, pick, hour) ==
    IF result.intent = "list_request" THEN HandleListRequest(msg)
    ELSE IF result.intent = "task_creation" THEN HandleTaskCreation(msg, pick, hour)
    ELSE IF result.intent = "planning" THEN HandlePlanningRequest(pick)
    ELSE IF result.intent = "information_request"
    THEN HandleInformationRequest(msg, pick)
    ELSE HandleGeneralChat(msg, result.sentiment, pick)

\* Math.floor(Math.random() * responses.length): the texts a reply can draw
\* from (the information replies have three, the others four)
Picks(result) == IF result.intent = "information_request" THEN 1..3 ELSE 1..4

----------------------------------------------------------------------------
(* The chat screen answering one message: generateBotResponse *)

\* the phrases the messages are made of
Phrases ==
    {<<"I", " ", "n", "e", "e", "d", " ", "t", "o">>,
     <<"I", " ", "w", "a", "n", "t", " ", "t", "o">>,
     <<"r", "e", "m", "i", "n", "d", " ", "m", "e", " ", "t", "o">>,
     <<"H", "e", "l", "p", " ", "m", "e">>,
     <<"s", "c", "h", "e", "d", "u", "l", "e">>,
     <<"g", "o", "a", "l">>,
     <<"t", "a", "s", "k">>,
     <<"s", "h", "o", "w", " ", "m", "e">>,
     <<"s", "u", "g", "g", "e", "s", "t">>,
     <<"i", "d", "e", "a", "s", " ", "f", "o", "r">>,
     <<"h", "o", "b", "b", "i", "e", "s">>,
     <<"b", "o", "o", "k", "s">>,
     <<"r", "e", "c", "i", "p", "e", "s">>,
     <<"h", "o", "w", " ", "t", "o">>,
     <<"a", "c", "t", "i", "v", "i", "t", "i", "e", "s">>,
     <<"w", "e", "e", "k">>,
     <<"r", "o", "u", "t", "i", "n", "e">>,
     <<"p", "r", "o", "d", "u", "c", "t", "i", "v", "i", "t", "y">>,
     <<"s", "t", "r", "u", "c", "t", "u", "r", "e">>,
     <<"?">>,
     <<"h", "e", "l", "l", "o">>,
     <<"u", "r", "g", "e", "n", "t", ":">>,
     <<"c", "a", "l", "l", " ", "t", "h", "e", " ", "d", "o", "c", "t", "o", "r">>,
     <<"f", "i", "n", "i", "s", "h", " ", "t", "h", "e", " ", "r", "e", "p", "o", "r", "t">>,
     <<"s", "o", "m", "e">>,
     <<"t", "i", "r", "e", "d">>,
     <<"s", "o", "m", "e", "d", "a", "y">>,
     <<"t", "h", "i", "s", " ", "m", "o", "r", "n", "i", "n", "g">>,
     <<"e", "x", "e", "r", "c", "i", "s", "e">>,
     <<"l", "e", "a", "r", "n", " ", "a", " ", "s", "k", "i", "l", "l">>,
     <<"g", "r", "e", "a", "t">>,
     <<"f", "i", "n", "i", "s", "h", " ", "t", "h", "e", " ", "q", "u", "a", "r", "t", "e", "r", "l", "y", " ", "r", "e", "p", "o", "r", "t", " ", "f", "o", "r", " ", "t", "h", "e", " ", "o", "f", "f", "i", "c", "e", ",", " ", "b", "e", "f", "o", "r", "e", " ", "t", "h", "e", " ", "d", "e", "a", "d", "l", "i", "n", "e", ".", " ", "T", "h", "e", "n", " ", "r", "e", "s", "t">>}

NeedToFinishReport ==
    <<"I", " ", "n", "e", "e", "d", " ", "t", "o", " ", "f", "i", "n", "i", "s", "h", " ", "t", "h", "e", " ", "r", "e", "p", "o", "r", "t">>
ShowMeSomeHobbies ==
    <<"s", "h", "o", "w", " ", "m", "e", " ", "s", "o", "m", "e", " ", "h", "o", "b", "b", "i", "e", "s">>
UrgentCallDoctor ==
    <<"u", "r", "g", "e", "n", "t", ":", " ", "c", "a", "l", "l", " ", "t", "h", "e", " ", "d", "o", "c", "t", "o", "r">>
PaddedMessage ==
    <<" ", " ", "S", "h", "o", "w", " ", "m", "e", " ", "B", "O", "O", "K", "S", " ", "t", "o", " ", "r", "e", "a", "d", " ">>

\* the messages sent: one phrase, two phrases with a space between them, and
\* the messages above
Messages ==
    Phrases
    \cup { p \o <<" ">> \o q : p \in Phrases, q \in Phrases }
    \cup {NeedToFinishReport, ShowMeSomeHobbies, UrgentCallDoctor, PaddedMessage}

\* the hours of the day at which the reply is built
ChatHours == {9, 13, 18}

InitChat ==
    /\ tasksBlob = Null
    /\ completedBlob = Null
    /\ scheduledTimeouts = NoTimeouts
    /\ timers = {}
    /\ now = StartClock
    /\ permission = "default"
    /\ platform = "web"
    /\ hasApi = TRUE
    /\ nextId = 1
    /\ flows = NoFlows
    /\ faults = 0
    /\ started = 0
    /\ inTime = << >>
    /\ callAt = 0
    /\ outDate = Null
    /\ outHandle = Null
    /\ outHour = NaN
    /\ pstage = "chat"
    /\ message \in Messages
    /\ currentHour \in ChatHours
    /\ analysis = NoAnalysis
    /\ response = NoResponse
    /\ IdleScreens

chatFrame ==
    <<storeVars, serviceVars, now, platform, hasApi, inTime, callAt, outDate,
      outHandle, outHour, flows, faults, started, message, currentHour,
      screenVars>>

\* line 78 of generateBotResponse
Analyze ==
    /\ pstage = "chat"
    /\ analysis' = AnalyzeMessage(message)
    /\ pstage' = "analyzed"
    /\ UNCHANGED <<chatFrame, response>>

\* line 81 of generateBotResponse
Respond(pick) ==
    /\ pstage = "analyzed"
    /\ pick \in Picks(analysis)
    /\ response' = GenerateResponse(message, analysis, pick, currentHour)
    /\ pstage' = "responded"
    /\ UNCHANGED <<chatFrame, analysis>>

NextChat ==
    \/ Analyze
    \/ \E pick \in 1..4 : Respond(pick)

SpecChat == InitChat /\ [][NextChat]_vars

----------------------------------------------------------------------------
(* Properties of the chatbot, under SpecChat *)

\* the literals of a pattern family, and whether one of them occurs in the
\* lower-cased, trimmed message
Literals(patterns) ==
    UNION { { patterns[p][k] : k \in 1..Len(patterns[p]) } : p \in 1..Len(patterns) }
Mentions(patterns) ==
    \E literal \in Literals(patterns) : Includes(Trim(ToLowerCase(message)), literal)

\* the intent of the first family the message matches, in the fixed order
FirstFamily ==
    IF Mentions(TaskPatterns) THEN "task_creation"
    ELSE IF Mentions(ListPatterns) THEN "list_request"
    ELSE IF Mentions(PlanningPatterns) THEN "planning"
    ELSE IF \E i \in 1..Len(message) : message[i] = "?" THEN "information_request"
    ELSE "general_chat"

\* the confidence attached to each intent, in tenths
ConfidenceOf ==
    [i \in {"task_creation", "list_request", "planning", "information_request",
            "general_chat"} |->
        CASE i = "task_creation" -> 8
          [] i = "list_request" -> 9
          [] i = "planning" -> 7
          [] i = "information_request" -> 6
          [] i = "general_chat" -> 5]

\* C17: analyzeMessage returns the intent of the first pattern family the
\* lower-cased message matches, in the order task-creation, list-request,
\* planning, '?', and general_chat when none matches; a message that matches
\* a task-creation pattern is task_creation whatever else it matches; the
\* confidence is the constant of the intent.
C17_FirstFamilyWins ==
    (pstage \in {"analyzed", "responded"}) =>
        /\ analysis.intent = FirstFamily
        /\ analysis.confidence = ConfidenceOf[analysis.intent]
        /\ Mentions(TaskPatterns) => analysis.intent = "task_creation"
        /\ analysis.intent = "general_chat" =>
               /\ ~Mentions(TaskPatterns)
               /\ ~Mentions(ListPatterns)
               /\ ~Mentions(PlanningPatterns)

\* C17 witness: a message with a task-creation phrase and a list word has
\* been analysed, as task_creation with confidence 0.8
C17_Witness ==
    /\ pstage = "analyzed"
    /\ Mentions(TaskPatterns)
    /\ Mentions(ListPatterns)
    /\ ~Mentions(PlanningPatterns)
    /\ analysis.intent = "task_creation"
    /\ analysis.confidence = 8

\* C18 (as claimed): "I need to finish the report" is classified
\* task_creation and its response carries a task draft with category Work and
\* priority medium.
C18_ReportIsWork ==
    (pstage = "responded" /\ message = NeedToFinishReport) =>
        /\ analysis.intent = "task_creation"
        /\ response.suggestedTask # Undefined
        /\ response.suggestedTask[2].category = "Work"
        /\ response.suggestedTask[2].priority = "medium"

\* the topic keywords of handleListRequest, and whether the message has one
TopicKeywords == UNION { ListTopics[t].keywords : t \in 1..Len(ListTopics) }
HasTopic == \E k \in TopicKeywords : Includes(ToLowerCase(message), k)

\* C19: a message classified list_request that contains a topic keyword gets
\* the 10 suggestions of the first topic, in the order hobbies, exercise,
\* books, learning, productivity, recipes, that it mentions; one without a
\* topic keyword gets the 6-item topic menu; "show me some hobbies" is
\* classified list_request and gets 10 suggestions.
C19_ListRequestSuggestions ==
    /\ (pstage = "responded" /\ analysis.intent = "list_request") =>
           /\ HasTopic =>
                  /\ Len(response.suggestions) = 10
                  /\ \E t \in 1..Len(ListTopics) :
                        /\ response.suggestions = ListTopics[t].suggestions
                        /\ \E k \in ListTopics[t].keywords :
                              Includes(ToLowerCase(message), k)
                        /\ \A u \in 1..(t - 1) : \A k \in ListTopics[u].keywords :
                              ~Includes(ToLowerCase(message), k)
           /\ ~HasTopic =>
                  /\ response.suggestions = TopicMenu
                  /\ Len(response.suggestions) = 6
    /\ (pstage \in {"analyzed", "responded"} /\ message = ShowMeSomeHobbies) =>
           analysis.intent = "list_request"
    /\ (pstage = "responded" /\ message = ShowMeSomeHobbies) =>
           Len(response.suggestions) = 10

\* C19 witness: "show me some hobbies" has been answered, as a list request,
\* with the ten hobby suggestions
C19_Witness ==
    /\ pstage = "responded"
    /\ message = ShowMeSomeHobbies
    /\ analysis.intent = "list_request"
    /\ response.suggestions = ListTopics[1].suggestions
    /\ Len(response.suggestions) = 10

\* C20 (as claimed): the response to "urgent: call the doctor" carries a task
\* draft with priority high and category Health.
C20_UrgentDoctorDraft ==
    (pstage = "responded" /\ message = UrgentCallDoctor) =>
        /\ response.suggestedTask # Undefined
        /\ response.suggestedTask[2].priority = "high"
        /\ response.suggestedTask[2].category = "Health"

----------------------------------------------------------------------------
(* The suggestion engine: aiService.ts and aiSuggestions.ts *)

\* most tasks completed today that a context reports
MaxCompletedToday == 5
\* most elements of the array the completion service answers with
MaxItems == 7

\* a JavaScript string held where undefined can be held too
Str(s) == <<"string", s>>

\* parseInt on a string over digits, ':' and letters: the value of the longest
\* prefix of digits, NaN when there is none
ParseInt(s) ==
    Only({ IF n = 0 THEN NaN ELSE Num(DecimalValue(SubSeq(s, 1, n)))
           : n \in {Cardinality({ k \in 1..Len(s) :
                                  \A j \in 1..k : IsDigit(s[j]) })} })

\* a >= b and a < b on numbers: false when either is NaN
GreaterEq(a, b) == IsNum(a) /\ IsNum(b) /\ a[2] >= b[2]
LessThan(a, b) == IsNum(a) /\ IsNum(b) /\ a[2] < b[2]

\* Date.prototype.toTimeString().slice(0, 5): HH:MM
Clock24(h, m) == MinuteText(h) \o <<":">> \o MinuteText(m)

\* a literal suggestion of the fallback lists (description and reason, which
\* nothing reads, are left out)
Suggestion(id, title, suggestedTime, category, priority) ==
    [id |-> id, title |-> title, suggestedTime |-> suggestedTime,
     category |-> category, priority |-> priority]

\* lines 389-394 of aiService.ts
GetNextAvailableTime(hour) ==
    Only({ HourText(IF nextHour > 12 THEN nextHour - 12 ELSE nextHour)
               \o <<":", "0", "0", " ">> \o (IF nextHour >= 12 THEN PM ELSE AM)
           : nextHour \in {hour + 1} })

\* line 172 of aiService.ts
CurrentHourOf(ctx) == ParseInt(Split(ctx.currentTime, ":")[1])
\* line 173
IsWeekend(ctx) == ctx.dayOfWeek = "Saturday" \/ ctx.dayOfWeek = "Sunday"

\* lines 177-221: the morning band
MorningSuggestions(ctx, hour) ==
    IF GreaterEq(hour, Num(6)) /\ LessThan(hour, Num(12))
    THEN <<Suggestion("morning_hydration", "Morning Hydration & Stretch",
                      TimeString(7, 30, AM), "Health", "high"),
           Suggestion("priority_planning", "Daily Priority Review",
                      TimeString(8, 30, AM), "Planning", "high"),
           IF ~IsWeekend(ctx)
           THEN Suggestion("deep_work_block", "Deep Work Session",
                           TimeString(9, 0, AM), "Work", "high")
           ELSE Suggestion("weekend_planning", "Weekend Planning",
                           TimeString(9, 0, AM), "Personal", "medium")>>
    ELSE << >>

\* lines 223-267: the afternoon band
AfternoonSuggestions(ctx, hour) ==
    IF GreaterEq(hour, Num(12)) /\ LessThan(hour, Num(18))
    THEN <<Suggestion("energy_walk", "Energizing Walk",
                      TimeString(1, 30, PM), "Health", "medium"),
           Suggestion("skill_development", "Skill Building Time",
                      TimeString(3, 0, PM), "Learning", "medium"),
           IF IsWeekend(ctx)
           THEN Suggestion("personal_project", "Personal Project Time",
                           TimeString(2, 0, PM), "Personal", "medium")
           ELSE Suggestion("afternoon_review", "Progress Check-in",
                           TimeString(2, 30, PM), "Planning", "low")>>
    ELSE << >>

\* lines 269-315: the evening band
EveningSuggestions(ctx, hour) ==
    IF GreaterEq(hour, Num(18)) /\ LessThan(hour, Num(22))
    THEN <<Suggestion("tomorrow_prep", "Tomorrow's Success Setup",
                      TimeString(8, 0, PM), "Planning", "medium"),
           Suggestion("gratitude_reflection", "Gratitude & Reflection",
                      TimeString(9, 30, PM), "Wellness", "low")>>
         \o (IF ctx.completedTasksToday < 3
             THEN <<Suggestion("quick_win", "Quick Win Task",
                               TimeString(7, 0, PM), "Personal", "medium")>>
             ELSE << >>)
         \o (IF IsWeekend(ctx)
             THEN <<Suggestion("social_connection", "Connect with Loved Ones",
                               TimeString(7, 30, PM), "Social", "medium")>>
             ELSE << >>)
    ELSE << >>

\* lines 317-339: the night band
NightSuggestions(ctx, hour) ==
    IF GreaterEq(hour, Num(22)) \/ LessThan(hour, Num(6))
    THEN <<Suggestion("wind_down", "Digital Wind Down",
                      TimeString(10, 0, PM), "Wellness", "high"),
           Suggestion("reading_time", "Relaxing Reading",
                      TimeString(10, 30, PM), "Personal", "low")>>
    ELSE << >>

\* lines 341-365: the suggestions that depend on the task history
ContextSuggestions(ctx, hour) ==
    (IF Len(ctx.existingTasks) = 0
     THEN <<Suggestion("first_task", "Plan Your Day",
                       GetNextAvailableTime(hour[2]), "Planning", "high")>>
     ELSE << >>)
    \o (IF ctx.completedTasksToday >= 5
        THEN <<Suggestion("celebration", "Celebrate Your Progress",
                          GetNextAvailableTime(hour[2]), "Wellness", "low")>>
        ELSE << >>)

\* lines 175-365: the list before it is filtered
Assembled(ctx) ==
    Only({ MorningSuggestions(ctx, hour) \o AfternoonSuggestions(ctx, hour)
           \o EveningSuggestions(ctx, hour) \o NightSuggestions(ctx, hour)
           \o ContextSuggestions(ctx, hour)
           : hour \in {CurrentHourOf(ctx)} })

\* Array.prototype.filter with a predicate given as the set of indices kept
RECURSIVE KeepIndices(_, _, _)
KeepIndices(arr, kept, i) ==
    IF i > Len(arr) THEN << >>
    ELSE (IF i \in kept THEN <<arr[i]>> ELSE << >>) \o KeepIndices(arr, kept, i + 1)

\* Relevant without the comparison: every suggestion is kept
RelevantAll(suggestions, hourOf, hour) == suggestions

\* lines 368-371 of aiService.ts and 131-134 of aiSuggestions.ts: the
\* suggestions whose parsed hour is at or after the current hour
Relevant(suggestions, hourOf, hour) ==
    KeepIndices(suggestions,
                { i \in 1..Len(suggestions) : GreaterEq(hourOf[i], hour) }, 1)

\* Array.prototype.slice(0, n)
Slice(arr, n) == SubSeq(arr, 1, IF Len(arr) < n THEN Len(arr) ELSE n)

\* AITaskSuggestionService.getFallbackSuggestions
GetFallbackSuggestions(ctx) ==
    Only({ Slice(Relevant(list,
                          [i \in 1..Len(list) |-> ParseTimeToHour(list[i].suggestedTime)],
                          CurrentHourOf(ctx)), 6)
           : list \in {Assembled(ctx)} })

\* lines 73-128 of aiSuggestions.ts: the fixed list of the simplified variant
SimplifiedList ==
    <<Suggestion("fallback_morning_1", "Morning Mindfulness",
                 Clock24(7, 30), "Wellness", "high"),
      Suggestion("fallback_morning_2", "Priority Planning",
                 Clock24(8, 30), "Planning", "high"),
      Suggestion("fallback_midday_1", "Energy Boost Walk",
                 Clock24(13, 30), "Health", "medium"),
      Suggestion("fallback_afternoon_1", "Skill Development",
                 Clock24(15, 0), "Learning", "medium"),
      Suggestion("fallback_evening_1", "Tomorrow's Success Setup",
                 Clock24(20, 0), "Planning", "medium"),
      Suggestion("fallback_evening_2", "Gratitude Reflection",
                 Clock24(21, 30), "Wellness", "low")>>

\* line 132 of aiSuggestions.ts
SimplifiedHour(suggestion) == ParseInt(Split(suggestion.suggestedTime, ":")[1])

\* getFallbackSuggestions of aiSuggestions.ts, called when getHours() is hour
GetFallbackSimplified(hour) ==
    Slice(Relevant(SimplifiedList,
                   [i \in 1..Len(SimplifiedList) |-> SimplifiedHour(SimplifiedList[i])],
                   Num(hour)), 4)

\* a string of n characters
Fill(n) == [i \in 1..n |-> "x"]
KeyPrefix == <<"s", "k", "-">>

\* lines 109-112 of aiService.ts
IsValidApiKeyFormat(key) ==
    /\ Len(key) >= 3
    /\ SubSeq(key, 1, 3) = KeyPrefix
    /\ Len(key) >= 20

\* !apiKey: undefined and the empty string are falsy
NoKey(key) == key = Undefined \/ key = << >>

\* String.prototype.substring(0, n)
Substring(s, n) == SubSeq(s, 1, IF Len(s) < n THEN Len(s) ELSE n)

\* s.x is truthy: neither undefined nor the empty string
Filled(x) == x # Undefined /\ x # << >>

\* line 158: the fields an accepted element has
HasRequiredFields(s) ==
    /\ Filled(s.id) /\ Filled(s.title) /\ Filled(s.suggestedTime)
    /\ Filled(s.category) /\ Filled(s.priority) /\ Filled(s.reason)

\* lines 159-167: the accepted element, its strings cut to length
Formatted(s) ==
    [id |-> s.id,
     title |-> Substring(s.title, 50),
     description |-> IF Filled(s.description) THEN Substring(s.description, 100)
                     ELSE << >>,
     suggestedTime |-> s.suggestedTime,
     category |-> s.category,
     priority |-> s.priority,
     reason |-> Substring(s.reason, 120)]

\* null as an element of the service's array: every property read of it throws
NullItem ==
    [id |-> Null, title |-> Null, description |-> Null, suggestedTime |-> Null,
     category |-> Null, priority |-> Null, reason |-> Null]

\* what a call that throws gives
Throw(msg) == <<"throw", msg>>
IsThrow(x) == Len(x) = 2 /\ x[1] = "throw"

\* AITaskSuggestionService.validateAndFormatSuggestions: throws for a value
\* that is no array, and for an array holding null (s.id of null); the array
\* returned is tagged as the parsed one is
ValidateAndFormatSuggestions(parsed) ==
    IF parsed[1] # "array" THEN Throw("AI did not return a valid array")
    ELSE IF \E i \in 1..Len(parsed[2]) : parsed[2][i] = NullItem
    THEN Throw("TypeError")
    ELSE Only({ <<"array", Slice([i \in 1..Len(kept) |-> Formatted(kept[i])], 6)>>
                : kept \in {KeepIndices(parsed[2],
                                        { i \in 1..Len(parsed[2]) :
                                            HasRequiredFields(parsed[2][i]) }, 1)} })

\* JSON.parse of the response content: the content is held as the value it
\* denotes, <<"text">> for content that is no JSON text
JsonParse(content) ==
    IF content[1] = "text" THEN Throw("SyntaxError") ELSE content

\* lines 92-99: the message for the error that was caught
ErrorMessage(status) ==
    IF status = 401 THEN "Invalid API key - please check your OpenAI API key"
    ELSE IF status = 429 THEN "API rate limit exceeded - please try again later"
    ELSE IF status = 403 THEN "API access forbidden - please check your OpenAI account"
    ELSE "AI service temporarily unavailable"

\* lines 101-105: the result of the catch block
Caught(ctx, status) ==
    [suggestions |-> GetFallbackSuggestions(ctx), usingFallback |-> TRUE,
     error |-> Str(ErrorMessage(status)), raised |-> FALSE]

\* lines 52-106: the try block, for what the completion call did: it rejected
\* with an error of some status (0 for an error without one), or resolved with
\* content (undefined for a reply without content)
Attempt(ctx, outcome) ==
    IF outcome.kind = "rejected" THEN Caught(ctx, outcome.status)
    ELSE IF ~Filled(outcome.content) THEN Caught(ctx, 0)
    ELSE Only({ IF IsThrow(parsed) THEN Caught(ctx, 0)
                ELSE Only({ IF IsThrow(valid) THEN Caught(ctx, 0)
                            ELSE [suggestions |-> valid[2], usingFallback |-> FALSE,
                                  error |-> Undefined, raised |-> FALSE]
                            : valid \in {ValidateAndFormatSuggestions(parsed)} })
                : parsed \in {JsonParse(outcome.content)} })

\* AITaskSuggestionService.generateSuggestions
GenerateSuggestions(ctx, key, outcome) ==
    IF NoKey(key)
    THEN [suggestions |-> GetFallbackSuggestions(ctx), usingFallback |-> TRUE,
          error |-> Undefined, raised |-> FALSE]
    ELSE IF ~IsValidApiKeyFormat(key)
    THEN [suggestions |-> GetFallbackSuggestions(ctx), usingFallback |-> TRUE,
          error |-> Str("Invalid API key format"), raised |-> FALSE]
    ELSE Attempt(ctx, outcome)

----------------------------------------------------------------------------
(* The suggestion engine on one context, one key and one service outcome *)

DaysOfWeek ==
    {"Monday", "Tuesday", "Wednesday", "Thursday", "Friday", "Saturday", "Sunday"}

\* the contexts buildUserContext makes: every hour, on the hour and at half
\* past; no scheduled task or one; up to MaxCompletedToday completed today
Contexts ==
    { [currentTime |-> Clock24(h, m), dayOfWeek |-> d, existingTasks |-> tasks,
       completedTasksToday |-> n]
      : h \in 0..23, m \in {30}, d \in DaysOfWeek, tasks \in {<< >>, <<Title1>>},
        n \in 0..MaxCompletedToday }

\* no key, the empty key, keys that fail the format check (no prefix; too
\* short by one character), and a key that passes it
ValidKey == KeyPrefix \o Fill(17)
ApiKeys == {Undefined, << >>, Fill(24), KeyPrefix \o Fill(16), ValidKey}

\* elements the service may put in its array
CompleteItem(i) ==
    [id |-> <<"i", "d", DigitChars[i + 1]>>, title |-> Fill(52),
     description |-> Undefined, suggestedTime |-> TimeString(9, 30, AM),
     category |-> <<"W">>, priority |-> <<"h">>, reason |-> Fill(3)]
IncompleteItem(i) == [CompleteItem(i) EXCEPT !.reason = Undefined]

\* arrays of up to MaxItems elements: all complete, or one incomplete, or one null
ServiceArrays ==
    { [i \in 1..n |-> IF i = bad THEN IncompleteItem(i) ELSE CompleteItem(i)]
      : n \in 0..MaxItems, bad \in {0, 1} }
    \cup {<<CompleteItem(1), NullItem>>}

\* what the completion call can do
Outcomes ==
    { [kind |-> "rejected", status |-> st, content |-> Undefined]
      : st \in {0, 401, 403, 429, 500} }
    \cup { [kind |-> "resolved", status |-> 0, content |-> c]
           : c \in {Undefined, << >>, <<"text">>, <<"object">>}
                   \cup { <<"array", a>> : a \in ServiceArrays } }

InitSuggest ==
    /\ tasksBlob = Null
    /\ completedBlob = Null
    /\ scheduledTimeouts = NoTimeouts
    /\ timers = {}
    /\ now = StartClock
    /\ permission = "default"
    /\ platform = "web"
    /\ hasApi = TRUE
    /\ nextId = 1
    /\ flows = NoFlows
    /\ faults = 0
    /\ started = 0
    /\ inTime = << >>
    /\ callAt = 0
    /\ outDate = Null
    /\ outHandle = Null
    /\ outHour = NaN
    /\ IdleChat
    /\ pstage = "suggest"
    /\ picked = Null
    /\ context \in Contexts
    /\ apiKey \in ApiKeys
    /\ IF apiKey = ValidKey
       THEN completion \in Outcomes
       ELSE completion = NoOutcome
    /\ suggested = NoSuggestions
    /\ transcript = << >>
    /\ typing = {}
    /\ chatClock = 0

suggestFrame ==
    <<storeVars, serviceVars, now, platform, hasApi, inTime, callAt, outDate,
      outHandle, outHour, flows, faults, started, chatVars, picked, context,
      apiKey, completion, transcript, typing, chatClock>>

\* aiService.generateSuggestions(context, apiKey) runs to its return
GenerateCall ==
    /\ pstage = "suggest"
    /\ \E r \in {GenerateSuggestions(context, apiKey, completion)} :
          suggested' = r @@ [simplified |-> << >>]
    /\ pstage' = "generated"
    /\ UNCHANGED suggestFrame

\* getFallbackSuggestions of aiSuggestions.ts runs at the hour of the context
SimplifiedCall ==
    /\ pstage = "suggest"
    /\ apiKey = Undefined
    /\ suggested' = [NoSuggestions EXCEPT
                        !.simplified = GetFallbackSimplified(CurrentHourOf(context)[2]),
                        !.usingFallback = TRUE]
    /\ pstage' = "simplified"
    /\ UNCHANGED suggestFrame

NextSuggest ==
    \/ GenerateCall
    \/ SimplifiedCall

SpecSuggest == InitSuggest /\ [][NextSuggest]_vars

----------------------------------------------------------------------------
(* Properties of the suggestion engine, under SpecSuggest *)

\* the current hour the context was built at, read off its HH:MM text
HourOfContext == CHOOSE h \in 0..23 : MinuteText(h) = SubSeq(context.currentTime, 1, 2)

\* the fallback algorithm has returned: the engine's, or the simplified variant's
FallbackReturned == pstage = "generated" /\ suggested.usingFallback
SimplifiedReturned == pstage = "simplified"

\* C21: for every current hour h, day of the week and task history, each
\* suggestion the fallback algorithm returns has a parsed hour >= h, and at
\* most 6 suggestions are returned (at most 4 by the simplified variant); at
\* h = 21 no returned suggestion has a parsed hour below 21.
C21_FallbackNotBeforeNow ==
    /\ FallbackReturned =>
          /\ Len(suggested.suggestions) <= 6
          /\ \A i \in 1..Len(suggested.suggestions) :
                \E hr \in {ParseTimeToHour(suggested.suggestions[i].suggestedTime)} :
                   /\ IsNum(hr)
                   /\ hr[2] >= HourOfContext
                   /\ HourOfContext = 21 => ~(hr[2] < 21)
    /\ SimplifiedReturned =>
          /\ Len(suggested.simplified) <= 4
          /\ \A i \in 1..Len(suggested.simplified) :
                \E hr \in {SimplifiedHour(suggested.simplified[i])} :
                   /\ IsNum(hr)
                   /\ hr[2] >= HourOfContext
                   /\ HourOfContext = 21 => ~(hr[2] < 21)

\* C21 witness: at hour 21 the fallback algorithm returned suggestions, having
\* left out assembled ones that were for earlier hours
C21_Witness ==
    /\ FallbackReturned
    /\ HourOfContext = 21
    /\ Len(suggested.suggestions) >= 1
    /\ Len(suggested.suggestions) < Len(Assembled(context))

\* C22 (as claimed): for every current hour, day of the week and task
\* history, the fallback path returns between 4 and 6 suggestions.
C22_FourToSix ==
    FallbackReturned =>
        (Len(suggested.suggestions) >= 4 /\ Len(suggested.suggestions) <= 6)

\* a key that fails the format check: it does not start with "sk-" or has
\* fewer than 20 characters
FailsFormatCheck(key) ==
    /\ key # Undefined
    /\ \/ Len(key) < 20
       \/ <<key[1], key[2], key[3]>> # <<"s", "k", "-">>

\* the service answered with a JSON array
AnsweredArray ==
    /\ completion.kind = "resolved"
    /\ completion.content # Undefined
    /\ completion.content # << >>
    /\ completion.content[1] = "array"

\* C23 (as claimed): generateSuggestions never raises; for a key that fails
\* the format check, a service error, an empty response or a response that is
\* not a JSON array it returns the fallback list with usingFallback = true and
\* a non-empty error string; usingFallback is false only when the response
\* was parsed and validated, and then at most 6 suggestions are returned.
C23_FailuresFallBack ==
    pstage = "generated" =>
        /\ ~suggested.raised
        /\ (FailsFormatCheck(apiKey) \/ (apiKey = ValidKey /\ ~AnsweredArray)) =>
              /\ suggested.usingFallback
              /\ suggested.suggestions = GetFallbackSuggestions(context)
              /\ suggested.error # Undefined
              /\ suggested.error[2] # ""
        /\ ~suggested.usingFallback =>
              /\ apiKey = ValidKey
              /\ AnsweredArray
              /\ Len(suggested.suggestions) <= 6

\* C30 (as claimed): for every current hour h, getNextAvailableTime(h) is a
\* 12-hour string whose parsed hour is (h + 1) mod 24: the context suggestions
\* 'Plan Your Day' and 'Celebrate Your Progress' are timed one hour after the
\* current hour.
C30_NextHourParsesBack ==
    FallbackReturned =>
        \A s \in { Assembled(context)[i] : i \in 1..Len(Assembled(context)) } :
            s.id \in {"first_task", "celebration"} =>
                /\ IsWellFormed(s.suggestedTime)
                /\ ParseTimeToHour(s.suggestedTime) = Num((HourOfContext + 1) % 24)

----------------------------------------------------------------------------
(* Ownership of pending reminders, under Spec *)

\* the active tasks whose stored notificationId is the handle
OwnersOf(handle) == { i \in 1..Len(GetTasks) : GetTasks[i].notificationId = handle }

----------------------------------------------------------------------------
(* Overlapping calls and failed reads, under SpecFlows *)

\* two completeTask calls for the same task have both returned, no write of
\* either was rejected: the second was started before the first had written
BothCompleted(f, g) ==
    /\ f # g
    /\ flows[f].op = "completeTask" /\ flows[f].pc = "done" /\ ~flows[f].failed
    /\ flows[g].op = "completeTask" /\ flows[g].pc = "done" /\ ~flows[g].failed
    /\ flows[f].taskId = flows[g].taskId

\* C25 (as claimed): when two completeTask calls for the same task overlap,
\* their reads and writes interleaving in any order, the task ends up in the
\* completed collection exactly once and is absent from the active collection.
C25_DoubleCompleteOnce ==
    \A f \in FlowIds, g \in FlowIds :
        BothCompleted(f, g) =>
            /\ Cardinality(CompletedRecords(flows[f].taskId)) = 1
            /\ flows[f].taskId \notin ActiveIds

\* C27 (as claimed): addTask never drops existing tasks: after addTask(t) has
\* returned, having run with no other call in progress, every task that was in
\* the persisted active collection before the call is still in it, also when
\* the storage read inside addTask failed.
C27_AddKeepsExisting ==
    \A f \in FlowIds :
        (flows[f].op = "addTask" /\ flows[f].pc = "done" /\ flows[f].solo) =>
            IdsOf(flows[f].before[1]) \subseteq ActiveIds

----------------------------------------------------------------------------
(* The scheduler and the add-task form on well-formed times *)

\* C26 (as claimed): with permission granted, scheduleTaskNotification returns
\* a handle for every well-formed 12-hour time string at every current
\* instant: a time of day that has passed is rolled forward to tomorrow, and
\* the 'time is in the past' branch is not taken.
C26_HandleForEveryWellFormedTime ==
    (pstage = "scheduled" /\ IsWellFormed(inTime) /\ permission = "granted") =>
        outHandle # Null

\* FormatTime12Hour that takes the period from hours > 12
FormatTime12HourNoonAM(date) ==
    Only({ HourText(IF hours % 12 = 0 THEN 12 ELSE hours % 12) \o <<":">>
               \o (IF minutes < 10 THEN <<"0">> \o HourText(minutes)
                   ELSE HourText(minutes))
               \o <<" ">> \o (IF hours > 12 THEN PM ELSE AM)
           : hours \in {GetHours(date)}, minutes \in {GetMinutes(date)} })

\* AddTaskModal.formatTime12Hour; HourText is the decimal text of a number
FormatTime12Hour(date) ==
    Only({ HourText(IF hours % 12 = 0 THEN 12 ELSE hours % 12) \o <<":">>
               \o (IF minutes < 10 THEN <<"0">> \o HourText(minutes)
                   ELSE HourText(minutes))
               \o <<" ">> \o (IF hours >= 12 THEN PM ELSE AM)
           : hours \in {GetHours(date)}, minutes \in {GetMinutes(date)} })

\* the Dates the time picker can hold: every minute of the day of the call,
\* at every tick of the minute
PickedTimes(t) ==
    { DateOf(DayStart(t) + At(h, m, sub)) : h \in 0..23, m \in 0..59, sub \in 0..(ClockRes - 1) }

InitForm ==
    /\ tasksBlob = Null
    /\ completedBlob = Null
    /\ scheduledTimeouts = NoTimeouts
    /\ timers = {}
    /\ now \in ClockSamples
    /\ permission = "granted"
    /\ platform = "web"
    /\ hasApi = TRUE
    /\ nextId = 1
    /\ flows = NoFlows
    /\ faults = 0
    /\ started = 0
    /\ inTime = << >>
    /\ callAt = now
    /\ outDate = Null
    /\ outHandle = Null
    /\ outHour = NaN
    /\ IdleChat
    /\ pstage = "form"
    /\ picked \in PickedTimes(now)
    /\ context = NoContext
    /\ apiKey = Undefined
    /\ completion = NoOutcome
    /\ suggested = NoSuggestions
    /\ transcript = << >>
    /\ typing = {}
    /\ chatClock = 0

\* handleSubmit: the picked time is formatted into the task's time string
SubmitTime ==
    /\ pstage = "form"
    /\ inTime' = FormatTime12Hour(picked)
    /\ pstage' = "input"
    /\ UNCHANGED <<storeVars, serviceVars, now, platform, hasApi, callAt, outDate,
                   outHandle, outHour, flows, faults, started, chatVars, screenVars>>

NextForm ==
    \/ SubmitTime
    \/ \E reads \in ReadsFrom(now, MaxDrift) : ParseCall(reads)

SpecForm == InitForm /\ [][NextForm]_vars

\* C28: every time string the add-task form produces parses back to the
\* picked time: for every hour 0..23 and minute 0..59, the notification time
\* parser gives formatTime12Hour's string the same hour and minute.
C28_FormatParseRoundTrip ==
    (pstage = "parsed" /\ picked # Null) =>
        /\ IsDate(outDate)
        /\ GetHours(outDate) = GetHours(picked)
        /\ GetMinutes(outDate) = GetMinutes(picked)

\* C28 witness: five past noon was picked, written as 12:05 PM and parsed back
\* to 12:05
C28_Witness ==
    /\ pstage = "parsed"
    /\ picked # Null
    /\ GetHours(picked) = 12
    /\ GetMinutes(picked) = 5
    /\ inTime = TimeString(12, 5, PM)
    /\ IsDate(outDate)
    /\ GetHours(outDate) = 12
    /\ GetMinutes(outDate) = 5

----------------------------------------------------------------------------
(* The chat screen: sendMessage and its typing-delay timers *)

\* most messages the user sends
MaxSent == 2
\* milliseconds between two instants at which the user can act
ChatStep == 400
\* the last instant followed
MaxChatClock == 3200

\* a message of 100 characters
LongMessage ==
    NeedToFinishReport \o <<" ">> \o ShowMeSomeHobbies \o <<" ">>
    \o UrgentCallDoctor \o <<" ">> \o NeedToFinishReport

\* what the user types
InputTexts == {ShowMeSomeHobbies, PaddedMessage, LongMessage}

\* line 106 of sendMessage, in milliseconds
TypingDelay(text) ==
    Only({ IF byLength < 800 THEN 800 ELSE IF byLength > 2000 THEN 2000 ELSE byLength
           : byLength \in {Len(text) * 20} })

\* the user messages of the transcript
SentCount == Cardinality({ i \in 1..Len(transcript) : ~transcript[i].isBot })

\* lines 96-101: the ChatMessage of the user; answers is 0 for a user message
\* and, for a reply, the position of its user message among the user messages
UserMessage(text) ==
    [isBot |-> FALSE, text |-> text, suggestedTask |-> Undefined,
     suggestions |-> Undefined, answers |-> 0]

\* lines 52-65: the greeting the transcript starts with
Greeting ==
    [isBot |-> TRUE, text |-> <<"greeting", 0>>, suggestedTask |-> Undefined,
     suggestions |-> <<"Show me some hobbies to try", "Help me plan my day",
                       "I want to be more productive", "Suggest some books to read",
                       "Give me exercise ideas">>,
     answers |-> 0]

\* lines 76-91: generateBotResponse
GenerateBotResponse(userMessage, pick, hour) ==
    Only({ [isBot |-> TRUE, text |-> r.text, suggestedTask |-> r.suggestedTask,
            suggestions |-> r.suggestions, answers |-> 0]
           : r \in {GenerateResponse(userMessage, AnalyzeMessage(userMessage),
                                     pick, hour)} })

\* the timer the runtime runs next: the one due earliest, the one set first
\* among timers due at the same instant
FiresFirst(tm) ==
    \A other \in typing :
        \/ other.due > tm.due
        \/ (other.due = tm.due /\ other.seq >= tm.seq)

InitTranscript ==
    /\ tasksBlob = Null
    /\ completedBlob = Null
    /\ scheduledTimeouts = NoTimeouts
    /\ timers = {}
    /\ now = StartClock
    /\ permission = "default"
    /\ platform = "web"
    /\ hasApi = TRUE
    /\ nextId = 1
    /\ flows = NoFlows
    /\ faults = 0
    /\ started = 0
    /\ inTime = << >>
    /\ callAt = 0
    /\ outDate = Null
    /\ outHandle = Null
    /\ outHour = NaN
    /\ message = << >>
    /\ currentHour \in ChatHours
    /\ analysis = NoAnalysis
    /\ response = NoResponse
    /\ pstage = "transcript"
    /\ picked = Null
    /\ context = NoContext
    /\ apiKey = Undefined
    /\ completion = NoOutcome
    /\ suggested = NoSuggestions
    /\ transcript = <<Greeting>>
    /\ typing = {}
    /\ chatClock = 0

transcriptFrame ==
    <<storeVars, serviceVars, now, platform, hasApi, inTime, pstage, callAt,
      outDate, outHandle, outHour, flows, faults, started, chatVars, picked,
      context, apiKey, completion, suggested>>

\* sendMessage: nothing for blank input; otherwise the user's message is
\* appended and the reply is set to be built after the typing delay
SendMessage(inputText) ==
    /\ pstage = "transcript"
    /\ SentCount < MaxSent
    /\ Trim(inputText) # << >>
    /\ \E text \in {Trim(inputText)} :
          /\ transcript' = Append(transcript, UserMessage(text))
          /\ typing' = typing \cup {[due |-> chatClock + TypingDelay(text),
                                     seq |-> SentCount + 1, text |-> text]}
    /\ UNCHANGED <<chatClock, transcriptFrame>>

\* lines 108-112: the callback of the typing-delay timer builds the reply and
\* appends it
TypingDone(tm, pick) ==
    /\ tm \in typing
    /\ tm.due <= chatClock
    /\ FiresFirst(tm)
    /\ pick \in Picks(AnalyzeMessage(tm.text))
    /\ transcript' = Append(transcript,
                            [GenerateBotResponse(tm.text, pick, currentHour)
                                EXCEPT !.answers = tm.seq])
    /\ typing' = typing \ {tm}
    /\ UNCHANGED <<chatClock, transcriptFrame>>

\* time passes once the timers that are due have run
ChatTick ==
    /\ pstage = "transcript"
    /\ chatClock + ChatStep <= MaxChatClock
    /\ \A tm \in typing : tm.due > chatClock
    /\ chatClock' = chatClock + ChatStep
    /\ UNCHANGED <<transcript, typing, transcriptFrame>>

NextTranscript ==
    \/ \E inputText \in InputTexts : SendMessage(inputText)
    \/ \E tm \in typing, pick \in 1..4 : TypingDone(tm, pick)
    \/ ChatTick

SpecTranscript == InitTranscript /\ [][NextTranscript]_vars

\* C29 (as claimed): bot replies are appended to the transcript in the order
\* of the user messages they answer: of two user messages, the reply to the
\* one sent first is appended before the reply to the one sent second.
C29_RepliesInSendOrder ==
    \A i \in 1..Len(transcript), j \in 1..Len(transcript) :
        (i < j /\ transcript[i].isBot /\ transcript[j].isBot) =>
            transcript[i].answers < transcript[j].answers

====
